---- MODULE Spec2Model ----
(***************************************************************************)
(* Session / break / status-update engine of the Slack check-in bot.       *)
(*                                                                         *)
(* The document store is modelled by one variable per collection.  Every   *)
(* command handler is a process whose steps are the individual store       *)
(* operations it awaits (each await is an interleaving point); what a      *)
(* handler read earlier is kept in its local record.                       *)
(*                                                                         *)
(* Time is an explicit clock.  Identifiers are minted from the clock, as   *)
(* in helper.ts, so two creations at the same clock value get the same id. *)
(* One minute is MinuteMs clock units.                                     *)
(*                                                                         *)
(* An optional value (a field that may be absent, a JS undefined, a        *)
(* document that may not exist) is a sequence: <<>> when absent, <<v>>     *)
(* when present.                                                           *)
(*                                                                         *)
(* Specifications:                                                         *)
(*   Spec     command handlers of one user, overlapping                    *)
(*   SpecSeq  command handlers, one at a time                              *)
(*   SpecApi  SpecSeq plus direct calls of endBreak with arbitrary ids     *)
(*   SpecRem  commands, the ...WithReminder... wrappers and the reminder   *)
(*            poll, one at a time, on a clock that steps by poll intervals *)
(*   SpecTeam two users' calls and the poll, with store failures in the    *)
(*            poll                                                         *)
(*   SpecCrash SpecSeq plus handlers that die between their two writes     *)
(*   SpecFair the poll with a timer that never stops, under fairness       *)
(*   SpecOverlap the poll with a second execution starting while the first *)
(*            is still running                                             *)
(***************************************************************************)
EXTENDS Integers, Sequences, FiniteSets, TLC

\* ---------------------------------------------------------------- bounds
MaxTime == 2
MaxCmds == 5
MaxOverlaps == 1
MinuteMs == 2

Users == {"u1"}
\* the users the store holds documents for; u2 issues commands only in SpecTeam
Team == {"u1", "u2"}
Procs == {"p1", "p2"}
Notes == {"", "n"}
StatusTexts == {"", "a", "b"}
BreakArgs == {"", "lunch"}

\* constants.ts BREAK_TYPES: the keys a break-start argument is checked against
BREAK_TYPES == {"short", "lunch", "personal", "meeting"}

\* ---------------------------------------------------------------- options
None == <<>>
Some(v) == <<v>>
IsSome(o) == o # <<>>

\* Math.round(n / d) for an integer n and d > 0: floor(n/d + 1/2)
Round(n, d) == (2 * n + d) \div (2 * d)

VARIABLES
    now,         \* the wall clock (Date.now())
    userStatus,  \* collection user_status: userId -> optional document
    sessions,    \* collection checkin_sessions: sessionId -> document
    breaks,      \* subcollections breaks: <<sessionId, breakId>> -> document
    updates,     \* subcollections status_updates: <<sessionId, updateId>> -> document
    proc,        \* the command handler each process is running, with its locals
    ncmd,        \* number of commands that passed their handler's gates so far
    overlaps,    \* number of them issued while another handler was running
    reminders,   \* collection status_reminders: userId -> optional document
    sent,        \* reminders the notifier delivered: a set of <<userId, time>>
    failed,      \* reminders the notifier failed to deliver: a set of <<userId, time>>
    sched,       \* the reminder poll in progress, with its locals
    polled,      \* whether the poll due at the current clock value has been started
    faults,      \* store operations of the poll that failed: a set of <<userId, time>>
    late         \* an execution of the reminder check still running when the timer fired again

\* the reminder scheduler's state; no command handler reads or writes it
remVars == <<reminders, sent, failed, sched, polled, faults, late>>

vars == <<now, userStatus, sessions, breaks, updates, proc, ncmd, overlaps, remVars>>

\* ---------------------------------------------------------------- helper.ts
\* generateSessionId: `${userId}_${dateStr}_${timestamp}`
generateSessionId(u, t) == <<u, t>>
\* generateBreakId: `break_${Date.now()}`
generateBreakId(t) == t
\* generateStatusUpdateId: `status_${Date.now()}`
generateStatusUpdateId(t) == t

\* ---------------------------------------------------------------- processes
IdleProc(outcome) ==
    [op |-> "idle", pc |-> "idle", user |-> "u1", arg |-> "",
     status |-> None, session |-> None, activeBreak |-> None, userStatus |-> None,
     now |-> 0, duration |-> 0, totalWorkTime |-> 0,
     notes |-> [checkin |-> None, checkout |-> None],
     previousStatus |-> None, outcome |-> outcome]

\* the handler has returned (after its respond()) with the given outcome
Finish(p, outcome) == proc' = [proc EXCEPT ![p] = IdleProc(outcome)]

Quiescent == \A p \in Procs : proc[p].pc = "idle"

\* A command is issued to an idle handler process.  The processes are
\* interchangeable slots, so the first command of a burst goes to p1.  A run of
\* the reminder poll is short next to the poll interval and is taken whole
\* between two commands.
Issue(p) ==
    LET busy == \E q \in Procs \ {p} : proc[q].pc # "idle"
    IN /\ proc[p].pc = "idle"
       /\ sched.pc = "idle"
       /\ ncmd + (IF busy THEN 1 ELSE 0) < MaxCmds
       /\ IF busy THEN overlaps < MaxOverlaps ELSE p = "p1"
       /\ overlaps' = IF busy THEN overlaps + 1 ELSE overlaps

\* the handler returns at one of its gates / goes on past them
Reject(p, outcome) == Finish(p, outcome) /\ ncmd' = ncmd
Accept(p, l) == proc' = [proc EXCEPT ![p] = l] /\ ncmd' = ncmd + 1

\* where createCheckinSession, completeCheckinSession and addStatusUpdate return
\* to: the ...WithReminder... wrappers of database.ts go on to the reminder
\* record, a command handler responds and returns
AfterCreateCheckinSession(p, l) ==
    IF l.op = "createCheckinSessionWithReminder"
    THEN proc' = [proc EXCEPT ![p].pc = "cr_set"]
    ELSE Finish(p, "ok")

AfterCompleteCheckinSession(p, l) ==
    IF l.op = "completeCheckinSessionWithReminder"
    THEN proc' = [proc EXCEPT ![p].pc = "dr_update"]
    ELSE Finish(p, "ok")

AfterAddStatusUpdate(p, l) ==
    IF l.op = "addStatusUpdateWithReminderUpdate"
    THEN proc' = [proc EXCEPT ![p].pc = "ur_get"]
    ELSE Finish(p, "ok")

\* ---------------------------------------------------------------- user_status
\* db.settings({ignoreUndefinedProperties: true}) + docRef.set(data, {merge: true}):
\* a field whose value is undefined is dropped from the write, and the write
\* replaces only the leaves it carries; every other stored leaf stays.
MergeCurrentSession(old, upd) ==
    IF old = None THEN upd
    ELSE [checkinTime |-> upd.checkinTime,
          totalBreakTime |-> upd.totalBreakTime,
          statusUpdateCount |-> upd.statusUpdateCount,
          currentWorkStatus |-> IF upd.currentWorkStatus = None
                                THEN old[1].currentWorkStatus
                                ELSE upd.currentWorkStatus,
          currentBreak |-> IF upd.currentBreak = None
                           THEN old[1].currentBreak
                           ELSE upd.currentBreak]

\* updateUserStatus(userId, updates): the document after the merge write
updateUserStatus(doc, upd) ==
    LET old == IF doc = None
               THEN [status |-> "undefined", currentSessionId |-> None,
                     currentSession |-> None]
               ELSE doc[1]
    IN Some([status |-> IF upd.status = None THEN old.status ELSE upd.status[1],
             currentSessionId |-> IF upd.currentSessionId = None
                                  THEN old.currentSessionId
                                  ELSE upd.currentSessionId,
             currentSession |-> IF upd.currentSession = None
                                THEN old.currentSession
                                ELSE Some(MergeCurrentSession(old.currentSession,
                                                              upd.currentSession[1]))])

\* ---------------------------------------------------------------- reminder poll
\* the poll is not running
IdleSched == [pc |-> "idle", now |-> 0, user |-> "u1", todo |-> {}, snapshot |-> << >>]

\* the same for an overtaken execution, with the reminder sendStatusReminder read
IdleLate == [pc |-> "idle", now |-> 0, user |-> "u1", todo |-> {}, snapshot |-> << >>,
             read |-> << >>]

\* ---------------------------------------------------------------- initial state
Init ==
    /\ now = 0
    /\ userStatus = [u \in Team |-> None]
    /\ sessions = << >>
    /\ breaks = << >>
    /\ updates = << >>
    /\ proc = [p \in Procs |-> IdleProc("none")]
    /\ ncmd = 0
    /\ overlaps = 0
    /\ reminders = [u \in Team |-> None]
    /\ sent = {}
    /\ failed = {}
    /\ sched = IdleSched
    /\ polled = TRUE
    /\ faults = {}
    /\ late = IdleLate

\* time passes
Tick ==
    /\ now < MaxTime
    /\ now' = now + 1
    /\ UNCHANGED <<remVars, userStatus, sessions, breaks, updates, proc, ncmd, overlaps>>

\* ---------------------------------------------------------------- /checkin
\* mutant: the gate forgets the on-break status
CheckinRejects_onlyCheckedIn(doc) ==
    /\ doc # None
    /\ doc[1].status = "checked-in"

\* handleCheckin up to its gate: getUserStatus, then reject or go on
CheckinRejects(doc) ==
    /\ doc # None
    /\ doc[1].status \in {"checked-in", "on-break"}

handleCheckin(p, u, notes) ==
    /\ Issue(p)
    /\ IF CheckinRejects(userStatus[u])
       THEN Reject(p, "AlreadyActiveError")
       ELSE Accept(p, [IdleProc("none") EXCEPT !.op = "checkin", !.pc = "ci_mint",
                                               !.user = u, !.arg = notes])
    /\ UNCHANGED <<remVars, now, userStatus, sessions, breaks, updates>>

\* createCheckinSession: sessionId and now are taken before the first await
createCheckinSession_mint(p) ==
    /\ proc[p].pc = "ci_mint"
    /\ proc' = [proc EXCEPT ![p].now = now, ![p].pc = "ci_set"]
    /\ UNCHANGED <<remVars, now, userStatus, sessions, breaks, updates, ncmd, overlaps>>

NewSession(u, t, notes) ==
    [userId |-> u, checkinTime |-> t, checkoutTime |-> None, status |-> "active",
     totalBreakTime |-> 0, totalWorkTime |-> None, breakCount |-> 0,
     statusUpdateCount |-> 0, lastWorkStatus |-> None,
     notes |-> [checkin |-> IF notes = "" THEN None ELSE Some(notes),
                checkout |-> None]]

\* createCheckinSession: doc(sessionId).set(sessionData)
createCheckinSession_set(p) ==
    LET l == proc[p]
        sid == generateSessionId(l.user, l.now)
    IN /\ l.pc = "ci_set"
       /\ sessions' = (sid :> NewSession(l.user, l.now, l.arg)) @@ sessions
       /\ proc' = [proc EXCEPT ![p].pc = "ci_status"]
       /\ UNCHANGED <<remVars, now, userStatus, breaks, updates, ncmd, overlaps>>

\* createCheckinSession: updateUserStatus(... status: 'checked-in' ...)
createCheckinSession_status(p) ==
    LET l == proc[p]
        upd == [status |-> Some("checked-in"),
                currentSessionId |-> Some(generateSessionId(l.user, l.now)),
                currentSession |-> Some([checkinTime |-> l.now,
                                         totalBreakTime |-> 0,
                                         statusUpdateCount |-> 0,
                                         currentWorkStatus |-> None,
                                         currentBreak |-> None])]
    IN /\ l.pc = "ci_status"
       /\ userStatus' = [userStatus EXCEPT ![l.user] = updateUserStatus(@, upd)]
       /\ AfterCreateCheckinSession(p, l)
       /\ UNCHANGED <<remVars, now, sessions, breaks, updates, ncmd, overlaps>>

Checkin(p) ==
    \/ \E u \in Users, n \in Notes : handleCheckin(p, u, n)
    \/ createCheckinSession_mint(p)
    \/ createCheckinSession_set(p)
    \/ createCheckinSession_status(p)

\* ---------------------------------------------------------------- getUserCurrentState
\* The four handlers below start with getUserCurrentState(userId): it reads
\* the user_status document, then the session, then (when the projection has a
\* currentBreak) the session's breaks.  The read of the 5 recent status updates
\* between the last two changes nothing and its result is not used by these
\* handlers, so it is not a step of its own.
Begin(p, u, op, arg) ==
    /\ Issue(p)
    /\ proc' = [proc EXCEPT ![p] =
            [IdleProc("none") EXCEPT
                !.op = op, !.user = u, !.arg = arg, !.status = userStatus[u],
                !.pc = IF userStatus[u] # None /\ IsSome(userStatus[u][1].currentSessionId)
                       THEN "gs_session" ELSE "decide"]]
    /\ UNCHANGED <<remVars, now, userStatus, sessions, breaks, updates, ncmd>>

\* status.currentSession?.currentBreak
HasCurrentBreak(doc) ==
    /\ IsSome(doc.currentSession)
    /\ IsSome(doc.currentSession[1].currentBreak)

\* getCheckinSession(status.currentSessionId)
getUserCurrentState_session(p) ==
    LET l == proc[p]
        sid == l.status[1].currentSessionId[1]
    IN /\ l.pc = "gs_session"
       /\ IF sid \in DOMAIN sessions
          THEN proc' = [proc EXCEPT ![p].session = Some(sid),
                                    ![p].pc = IF HasCurrentBreak(l.status[1])
                                              THEN "gs_breaks" ELSE "decide"]
          ELSE proc' = [proc EXCEPT ![p].pc = "decide"]
       /\ UNCHANGED <<remVars, now, userStatus, sessions, breaks, updates, ncmd, overlaps>>

\* getSessionBreaks(...).find(b => b.breakId === status.currentSession.currentBreak.id)
getUserCurrentState_breaks(p) ==
    LET l == proc[p]
        key == <<l.session[1], l.status[1].currentSession[1].currentBreak[1].id>>
    IN /\ l.pc = "gs_breaks"
       /\ proc' = [proc EXCEPT ![p].activeBreak = IF key \in DOMAIN breaks
                                                  THEN Some(key[2]) ELSE None,
                               ![p].pc = "decide"]
       /\ UNCHANGED <<remVars, now, userStatus, sessions, breaks, updates, ncmd, overlaps>>

\* mutant: the not-checked-in gate does not look at the status
NotCheckedIn_noStatus(l) ==
    \/ l.status = None
    \/ l.session = None

\* !userState || userState.status.status === 'checked-out' || !userState.currentSession
NotCheckedIn(l) ==
    \/ l.status = None
    \/ l.status[1].status = "checked-out"
    \/ l.session = None

\* userState.status.status === 'on-break' && userState.activeBreak
OnBreakWithActiveBreak(l) ==
    /\ l.status[1].status = "on-break"
    /\ l.activeBreak # None

\* ---------------------------------------------------------------- endBreak
\* where endBreak returns to: handleCheckout goes on to completeCheckinSession
AfterEndBreak(p, l) ==
    IF l.op = "checkout"
    THEN proc' = [proc EXCEPT ![p] = [l EXCEPT !.pc = "cc_get", !.userStatus = None]]
    ELSE Finish(p, "ok")

\* mutant: endBreak does not check that the break document exists
endBreak_get_noCheck(p) ==
    LET l == proc[p]
        key == <<l.session[1], l.activeBreak[1]>>
    IN /\ l.pc = "eb_get"
       /\ proc' = [proc EXCEPT
                    ![p].now = now,
                    ![p].duration = IF key \in DOMAIN breaks
                                    THEN Round(now - breaks[key].startTime, MinuteMs)
                                    ELSE 0,
                    ![p].pc = IF key \in DOMAIN breaks THEN "eb_break" ELSE "eb_getStatus"]
       /\ UNCHANGED <<remVars, now, userStatus, sessions, breaks, updates, ncmd, overlaps>>

\* breakRef.get(); throws when the break document does not exist
endBreak_get(p) ==
    LET l == proc[p]
        key == <<l.session[1], l.activeBreak[1]>>
    IN /\ l.pc = "eb_get"
       /\ IF key \notin DOMAIN breaks
          THEN Finish(p, "BreakNotFoundError")
          ELSE proc' = [proc EXCEPT
                    ![p].now = now,
                    ![p].duration = Round(now - breaks[key].startTime, MinuteMs),
                    ![p].pc = "eb_break"]
       /\ UNCHANGED <<remVars, now, userStatus, sessions, breaks, updates, ncmd, overlaps>>

\* breakRef.update({endTime, duration, status: 'completed'})
endBreak_break(p) ==
    LET l == proc[p]
        key == <<l.session[1], l.activeBreak[1]>>
    IN /\ l.pc = "eb_break"
       /\ breaks' = [breaks EXCEPT ![key] =
                [@ EXCEPT !.endTime = Some(l.now), !.duration = Some(l.duration),
                          !.status = "completed"]]
       /\ proc' = [proc EXCEPT ![p].pc = "eb_session"]
       /\ UNCHANGED <<remVars, now, userStatus, sessions, updates, ncmd, overlaps>>

\* mutant: the session's totalBreakTime is overwritten instead of incremented
endBreak_session_overwrite(p) ==
    LET l == proc[p]
    IN /\ l.pc = "eb_session"
       /\ sessions' = [sessions EXCEPT ![l.session[1]].totalBreakTime = l.duration]
       /\ proc' = [proc EXCEPT ![p].pc = "eb_getStatus"]
       /\ UNCHANGED <<remVars, now, userStatus, breaks, updates, ncmd, overlaps>>

\* session update: totalBreakTime: FieldValue.increment(duration)
endBreak_session(p) ==
    LET l == proc[p]
    IN /\ l.pc = "eb_session"
       /\ sessions' = [sessions EXCEPT ![l.session[1]].totalBreakTime = @ + l.duration]
       /\ proc' = [proc EXCEPT ![p].pc = "eb_getStatus"]
       /\ UNCHANGED <<remVars, now, userStatus, breaks, updates, ncmd, overlaps>>

\* getUserStatus(userId); if (userStatus?.currentSession) ...
endBreak_getStatus(p) ==
    LET l == proc[p]
        doc == userStatus[l.user]
    IN /\ l.pc = "eb_getStatus"
       /\ IF doc # None /\ IsSome(doc[1].currentSession)
          THEN proc' = [proc EXCEPT ![p].userStatus = doc, ![p].pc = "eb_status"]
          ELSE AfterEndBreak(p, l)
       /\ UNCHANGED <<remVars, now, userStatus, sessions, breaks, updates, ncmd, overlaps>>

\* mutant: the duration is not folded into the projection's totalBreakTime
EndBreakStatus_noFold(read, duration) ==
    [status |-> Some("checked-in"),
     currentSessionId |-> None,
     currentSession |-> Some([read.currentSession[1] EXCEPT !.currentBreak = None])]

\* the projection endBreak writes back: status 'checked-in', the currentSession
\* it read with totalBreakTime + duration and currentBreak: undefined
EndBreakStatus(read, duration) ==
    [status |-> Some("checked-in"),
     currentSessionId |-> None,
     currentSession |-> Some([read.currentSession[1] EXCEPT
                                !.totalBreakTime = @ + duration,
                                !.currentBreak = None])]

endBreak_status(p) ==
    LET l == proc[p]
    IN /\ l.pc = "eb_status"
       /\ userStatus' = [userStatus EXCEPT ![l.user] =
                updateUserStatus(@, EndBreakStatus(l.userStatus[1], l.duration))]
       /\ AfterEndBreak(p, l)
       /\ UNCHANGED <<remVars, now, sessions, breaks, updates, ncmd, overlaps>>

EndBreak(p) ==
    \/ endBreak_get(p)
    \/ endBreak_break(p)
    \/ endBreak_session(p)
    \/ endBreak_getStatus(p)
    \/ endBreak_status(p)

\* ---------------------------------------------------------------- completeCheckinSession
\* mutant: the work time is clamped at zero
TotalWorkTime_clamped(checkinTime, checkoutTime, totalBreakTime) ==
    LET w == Round((checkoutTime - checkinTime) - totalBreakTime * MinuteMs, MinuteMs)
    IN IF w < 0 THEN 0 ELSE w

\* Math.round((checkoutTime - checkinTime) / 60000 - session.totalBreakTime)
TotalWorkTime(checkinTime, checkoutTime, totalBreakTime) ==
    Round((checkoutTime - checkinTime) - totalBreakTime * MinuteMs, MinuteMs)

\* getCheckinSession(sessionId); checkoutTime = new Date(); totalWorkTime
completeCheckinSession_get(p) ==
    LET l == proc[p]
        sid == l.session[1]
    IN /\ l.pc = "cc_get"
       /\ IF sid \notin DOMAIN sessions
          THEN Finish(p, "SessionNotFoundError")
          ELSE proc' = [proc EXCEPT
                    ![p].now = now,
                    ![p].totalWorkTime = TotalWorkTime(sessions[sid].checkinTime, now,
                                                       sessions[sid].totalBreakTime),
                    ![p].notes = sessions[sid].notes,
                    ![p].pc = "cc_session"]
       /\ UNCHANGED <<remVars, now, userStatus, sessions, breaks, updates, ncmd, overlaps>>

\* mutant: the notes field written at checkout holds the checkout notes only
CheckoutNotes_checkoutOnly(stored, read, checkoutNotes) ==
    IF checkoutNotes = "" THEN stored
    ELSE [checkin |-> None, checkout |-> Some(checkoutNotes)]

\* the notes field written at checkout: {...session.notes, checkout: checkoutNotes}
\* when checkout notes are given, otherwise the field is not written
CheckoutNotes(stored, read, checkoutNotes) ==
    IF checkoutNotes = "" THEN stored
    ELSE [checkin |-> read.checkin, checkout |-> Some(checkoutNotes)]

\* doc(sessionId).update({checkoutTime, status: 'completed', totalWorkTime, notes?})
completeCheckinSession_session(p) ==
    LET l == proc[p]
    IN /\ l.pc = "cc_session"
       /\ sessions' = [sessions EXCEPT ![l.session[1]] =
                [@ EXCEPT !.checkoutTime = Some(l.now),
                          !.status = "completed",
                          !.totalWorkTime = Some(l.totalWorkTime),
                          !.notes = CheckoutNotes(@, l.notes, l.arg)]]
       /\ proc' = [proc EXCEPT ![p].pc = "cc_status"]
       /\ UNCHANGED <<remVars, now, userStatus, breaks, updates, ncmd, overlaps>>

\* updateUserStatus(userId, {status: 'checked-out', currentSessionId: undefined,
\*                           lastCheckout, currentSession: undefined})
CheckoutStatus ==
    [status |-> Some("checked-out"), currentSessionId |-> None, currentSession |-> None]

completeCheckinSession_status(p) ==
    LET l == proc[p]
    IN /\ l.pc = "cc_status"
       /\ userStatus' = [userStatus EXCEPT ![l.user] = updateUserStatus(@, CheckoutStatus)]
       /\ AfterCompleteCheckinSession(p, l)
       /\ UNCHANGED <<remVars, now, sessions, breaks, updates, ncmd, overlaps>>

\* ---------------------------------------------------------------- /checkout
handleCheckout(p, u, notes) == Begin(p, u, "checkout", notes)

\* mutant: a check-out on break does not end the break first
handleCheckout_decide_noAutoEnd(p) ==
    LET l == proc[p]
    IN /\ l.pc = "decide"
       /\ l.op = "checkout"
       /\ IF NotCheckedIn(l)
          THEN Reject(p, "NotCheckedInError")
          ELSE Accept(p, [l EXCEPT !.pc = "cc_get"])
       /\ UNCHANGED <<remVars, now, userStatus, sessions, breaks, updates, overlaps>>

handleCheckout_decide(p) ==
    LET l == proc[p]
    IN /\ l.pc = "decide"
       /\ l.op = "checkout"
       /\ IF NotCheckedIn(l)
          THEN Reject(p, "NotCheckedInError")
          ELSE Accept(p, [l EXCEPT !.pc = IF OnBreakWithActiveBreak(l)
                                          THEN "eb_get" ELSE "cc_get"])
       /\ UNCHANGED <<remVars, now, userStatus, sessions, breaks, updates, overlaps>>

Checkout(p) ==
    \/ \E u \in Users, n \in Notes : handleCheckout(p, u, n)
    \/ handleCheckout_decide(p)
    \/ completeCheckinSession_get(p)
    \/ completeCheckinSession_session(p)
    \/ completeCheckinSession_status(p)

\* ---------------------------------------------------------------- /break-start
handleBreakStart(p, u, breakType) == Begin(p, u, "breakstart", breakType)

\* mutant: no already-on-break gate
handleBreakStart_decide_noGate(p) ==
    LET l == proc[p]
    IN /\ l.pc = "decide"
       /\ l.op = "breakstart"
       /\ IF NotCheckedIn(l) THEN Reject(p, "NotCheckedInError")
          ELSE IF l.arg \notin BREAK_TYPES THEN Reject(p, "usage")
          ELSE Accept(p, [l EXCEPT !.now = now, !.pc = "sb_break"])
       /\ UNCHANGED <<remVars, now, userStatus, sessions, breaks, updates, overlaps>>

\* the gates of handleBreakStart, then startBreak's breakId and now
handleBreakStart_decide(p) ==
    LET l == proc[p]
    IN /\ l.pc = "decide"
       /\ l.op = "breakstart"
       /\ IF NotCheckedIn(l) THEN Reject(p, "NotCheckedInError")
          ELSE IF OnBreakWithActiveBreak(l) THEN Reject(p, "AlreadyOnBreakError")
          ELSE IF l.arg \notin BREAK_TYPES THEN Reject(p, "usage")
          ELSE Accept(p, [l EXCEPT !.now = now, !.pc = "sb_break"])
       /\ UNCHANGED <<remVars, now, userStatus, sessions, breaks, updates, overlaps>>

\* breaks doc(breakId).set(breakData)
startBreak_break(p) ==
    LET l == proc[p]
        key == <<l.session[1], generateBreakId(l.now)>>
    IN /\ l.pc = "sb_break"
       /\ breaks' = (key :> [type |-> l.arg, startTime |-> l.now, endTime |-> None,
                             duration |-> None, status |-> "active"]) @@ breaks
       /\ proc' = [proc EXCEPT ![p].pc = "sb_session"]
       /\ UNCHANGED <<remVars, now, userStatus, sessions, updates, ncmd, overlaps>>

\* session update: breakCount: FieldValue.increment(1)
startBreak_session(p) ==
    LET l == proc[p]
    IN /\ l.pc = "sb_session"
       /\ sessions' = [sessions EXCEPT ![l.session[1]].breakCount = @ + 1]
       /\ proc' = [proc EXCEPT ![p].pc = "sb_getStatus"]
       /\ UNCHANGED <<remVars, now, userStatus, breaks, updates, ncmd, overlaps>>

\* getUserStatus(userId); if (userStatus?.currentSession) ...
startBreak_getStatus(p) ==
    LET l == proc[p]
        doc == userStatus[l.user]
    IN /\ l.pc = "sb_getStatus"
       /\ IF doc # None /\ IsSome(doc[1].currentSession)
          THEN proc' = [proc EXCEPT ![p].userStatus = doc, ![p].pc = "sb_status"]
          ELSE Finish(p, "ok")
       /\ UNCHANGED <<remVars, now, userStatus, sessions, breaks, updates, ncmd, overlaps>>

\* mutant: startBreak writes status 'on-break' without the currentBreak
StartBreakStatus_noCurrentBreak(read, breakId, breakType, startTime) ==
    [status |-> Some("on-break"),
     currentSessionId |-> None,
     currentSession |-> Some(read.currentSession[1])]

\* the projection startBreak writes back: status 'on-break' and the
\* currentSession it read with currentBreak {id, type, startTime}
StartBreakStatus(read, breakId, breakType, startTime) ==
    [status |-> Some("on-break"),
     currentSessionId |-> None,
     currentSession |-> Some([read.currentSession[1] EXCEPT
                                !.currentBreak = Some([id |-> breakId, type |-> breakType,
                                                       startTime |-> startTime])])]

startBreak_status(p) ==
    LET l == proc[p]
    IN /\ l.pc = "sb_status"
       /\ userStatus' = [userStatus EXCEPT ![l.user] =
                updateUserStatus(@, StartBreakStatus(l.userStatus[1], generateBreakId(l.now),
                                                     l.arg, l.now))]
       /\ Finish(p, "ok")
       /\ UNCHANGED <<remVars, now, sessions, breaks, updates, ncmd, overlaps>>

BreakStart(p) ==
    \/ \E u \in Users, b \in BreakArgs : handleBreakStart(p, u, b)
    \/ handleBreakStart_decide(p)
    \/ startBreak_break(p)
    \/ startBreak_session(p)
    \/ startBreak_getStatus(p)
    \/ startBreak_status(p)

\* ---------------------------------------------------------------- /break-end
handleBreakEnd(p, u) == Begin(p, u, "breakend", "")

\* mutant: the gate does not look at the status
BreakEndRejects_noStatus(l) ==
    \/ l.status = None
    \/ l.activeBreak = None
    \/ l.session = None

\* !userState || status !== 'on-break' || !activeBreak || !currentSession
BreakEndRejects(l) ==
    \/ l.status = None
    \/ l.status[1].status # "on-break"
    \/ l.activeBreak = None
    \/ l.session = None

handleBreakEnd_decide(p) ==
    LET l == proc[p]
    IN /\ l.pc = "decide"
       /\ l.op = "breakend"
       /\ IF BreakEndRejects(l)
          THEN Reject(p, "NotOnBreakError")
          ELSE Accept(p, [l EXCEPT !.pc = "eb_get"])
       /\ UNCHANGED <<remVars, now, userStatus, sessions, breaks, updates, overlaps>>

BreakEnd(p) ==
    \/ \E u \in Users : handleBreakEnd(p, u)
    \/ handleBreakEnd_decide(p)

\* ---------------------------------------------------------------- /status-update
\* getLatestStatusUpdate: orderBy('timestamp', 'desc').limit(1)
getLatestStatusUpdate(sid) ==
    LET ks == {k \in DOMAIN updates : k[1] = sid}
    IN IF ks = {} THEN None
       ELSE Some(updates[CHOOSE k \in ks :
                    \A j \in ks : updates[j].timestamp <= updates[k].timestamp])

handleStatusUpdate(p, u, text) == Begin(p, u, "statusupdate", text)

\* the gates of handleStatusUpdate, then addStatusUpdate's updateId and now
handleStatusUpdate_decide(p) ==
    LET l == proc[p]
    IN /\ l.pc = "decide"
       /\ l.op = "statusupdate"
       /\ IF NotCheckedIn(l) THEN Reject(p, "NotCheckedInError")
          ELSE IF l.arg = "" THEN Reject(p, "shown")
          ELSE Accept(p, [l EXCEPT !.now = now, !.pc = "as_latest"])
       /\ UNCHANGED <<remVars, now, userStatus, sessions, breaks, updates, overlaps>>

\* previousUpdate = await getLatestStatusUpdate(sessionId)
addStatusUpdate_latest(p) ==
    LET l == proc[p]
        prev == getLatestStatusUpdate(l.session[1])
    IN /\ l.pc = "as_latest"
       /\ proc' = [proc EXCEPT ![p].previousStatus = IF prev = None THEN None
                                                     ELSE Some(prev[1].status),
                               ![p].pc = "as_update"]
       /\ UNCHANGED <<remVars, now, userStatus, sessions, breaks, updates, ncmd, overlaps>>

\* status_updates doc(updateId).set(updateData)
addStatusUpdate_update(p) ==
    LET l == proc[p]
        key == <<l.session[1], generateStatusUpdateId(l.now)>>
    IN /\ l.pc = "as_update"
       /\ updates' = (key :> [status |-> l.arg, timestamp |-> l.now,
                              previousStatus |-> l.previousStatus]) @@ updates
       /\ proc' = [proc EXCEPT ![p].pc = "as_session"]
       /\ UNCHANGED <<remVars, now, userStatus, sessions, breaks, ncmd, overlaps>>

\* mutant: statusUpdateCount is written as the count read at the handler's
\* start plus one, instead of incremented in the store
addStatusUpdate_session_readThenWrite(p) ==
    LET l == proc[p]
        read == IF l.status # None /\ IsSome(l.status[1].currentSession)
                THEN l.status[1].currentSession[1].statusUpdateCount ELSE 0
    IN /\ l.pc = "as_session"
       /\ sessions' = [sessions EXCEPT ![l.session[1]] =
                [@ EXCEPT !.lastWorkStatus = Some(l.arg),
                          !.statusUpdateCount = read + 1]]
       /\ proc' = [proc EXCEPT ![p].pc = "as_getStatus"]
       /\ UNCHANGED <<remVars, now, userStatus, breaks, updates, ncmd, overlaps>>

\* session update: lastWorkStatus, statusUpdateCount: FieldValue.increment(1)
addStatusUpdate_session(p) ==
    LET l == proc[p]
    IN /\ l.pc = "as_session"
       /\ sessions' = [sessions EXCEPT ![l.session[1]] =
                [@ EXCEPT !.lastWorkStatus = Some(l.arg),
                          !.statusUpdateCount = @ + 1]]
       /\ proc' = [proc EXCEPT ![p].pc = "as_getStatus"]
       /\ UNCHANGED <<remVars, now, userStatus, breaks, updates, ncmd, overlaps>>

\* getUserStatus(userId); if (userStatus?.currentSession) ...
addStatusUpdate_getStatus(p) ==
    LET l == proc[p]
        doc == userStatus[l.user]
    IN /\ l.pc = "as_getStatus"
       /\ IF doc # None /\ IsSome(doc[1].currentSession)
          THEN proc' = [proc EXCEPT ![p].userStatus = doc, ![p].pc = "as_status"]
          ELSE AfterAddStatusUpdate(p, l)
       /\ UNCHANGED <<remVars, now, userStatus, sessions, breaks, updates, ncmd, overlaps>>

\* mutant: addStatusUpdate writes status 'checked-in' and drops the currentBreak
AddStatusUpdateStatus_checkedIn(read, text) ==
    [status |-> Some("checked-in"),
     currentSessionId |-> None,
     currentSession |-> Some([read.currentSession[1] EXCEPT
                                !.currentWorkStatus = Some(text),
                                !.statusUpdateCount = @ + 1,
                                !.currentBreak = None])]

\* the projection addStatusUpdate writes back: the currentSession it read with
\* currentWorkStatus and statusUpdateCount + 1
AddStatusUpdateStatus(read, text) ==
    [status |-> None,
     currentSessionId |-> None,
     currentSession |-> Some([read.currentSession[1] EXCEPT
                                !.currentWorkStatus = Some(text),
                                !.statusUpdateCount = @ + 1])]

addStatusUpdate_status(p) ==
    LET l == proc[p]
    IN /\ l.pc = "as_status"
       /\ userStatus' = [userStatus EXCEPT ![l.user] =
                updateUserStatus(@, AddStatusUpdateStatus(l.userStatus[1], l.arg))]
       /\ AfterAddStatusUpdate(p, l)
       /\ UNCHANGED <<remVars, now, sessions, breaks, updates, ncmd, overlaps>>

StatusUpdate(p) ==
    \/ \E u \in Users, t \in StatusTexts : handleStatusUpdate(p, u, t)
    \/ handleStatusUpdate_decide(p)
    \/ addStatusUpdate_latest(p)
    \/ addStatusUpdate_update(p)
    \/ addStatusUpdate_session(p)
    \/ addStatusUpdate_getStatus(p)
    \/ addStatusUpdate_status(p)

GetUserCurrentState(p) ==
    \/ getUserCurrentState_session(p)
    \/ getUserCurrentState_breaks(p)

\* ---------------------------------------------------------------- specifications
Handler(p) ==
    \/ Checkin(p)
    \/ Checkout(p)
    \/ BreakStart(p)
    \/ BreakEnd(p)
    \/ StatusUpdate(p)
    \/ GetUserCurrentState(p)
    \/ EndBreak(p)

\* command handlers of the same user may overlap: nothing serialises them
Next ==
    \/ Tick
    \/ \E p \in Procs : Handler(p)

Spec == Init /\ [][Next]_vars

\* one command at a time: a single handler process, so a command starts only
\* when the previous one has returned
NextSeq ==
    \/ Tick
    \/ Handler("p1")

SpecSeq == Init /\ [][NextSeq]_vars

\* ---------------------------------------------------------------- database.ts called directly
\* endBreak(sessionId, breakId, userId) is an exported operation; called with
\* arbitrary ids it is not protected by the gates of a command handler.
SessionIds == {generateSessionId(u, t) : u \in Users, t \in 0..MaxTime}
BreakIds == {generateBreakId(t) : t \in 0..MaxTime}

endBreak(p, sid, bid, u) ==
    /\ Issue(p)
    /\ Accept(p, [IdleProc("none") EXCEPT !.op = "endBreak", !.pc = "eb_get", !.user = u,
                                          !.session = Some(sid), !.activeBreak = Some(bid)])
    /\ UNCHANGED <<remVars, now, userStatus, sessions, breaks, updates>>

\* one command or direct call at a time
NextApi ==
    \/ Tick
    \/ Handler("p1")
    \/ \E sid \in SessionIds, bid \in BreakIds, u \in Users : endBreak("p1", sid, bid, u)

SpecApi == Init /\ [][NextApi]_vars

\* ---------------------------------------------------------------- status reminders
\* Clock values of the reminder specification are poll instants: the clock
\* advances by one poll interval, and whatever happens between two polls
\* carries the clock value of the earlier one.
RemMaxPolls == 19
RemMaxCmds == 3

\* checkAndSendStatusReminders: REMINDER_INTERVAL_MS = 45 * 60 * 1000
REMINDER_INTERVAL_MS == 45 * MinuteMs
\* startStatusReminderService: CHECK_INTERVAL_MS = 5 * 60 * 1000
CHECK_INTERVAL_MS == 5 * MinuteMs

\* createStatusReminder: the document written with set()
NewReminder(sid) ==
    [sessionId |-> sid, reminderCount |-> 0, isActive |-> TRUE,
     lastReminderSent |-> None, lastStatusUpdate |-> None]

\* updateStatusReminder: doc(userId).update(updateData); update() of a missing
\* document fails, the error is caught and logged
updateStatusReminder(doc, upd) ==
    IF doc = None THEN None
    ELSE Some([sessionId |-> doc[1].sessionId,
               reminderCount |-> IF upd.reminderCount = None THEN doc[1].reminderCount
                                 ELSE upd.reminderCount[1],
               isActive |-> IF upd.isActive = None THEN doc[1].isActive
                            ELSE upd.isActive[1],
               lastReminderSent |-> IF upd.lastReminderSent = None
                                    THEN doc[1].lastReminderSent ELSE upd.lastReminderSent,
               lastStatusUpdate |-> IF upd.lastStatusUpdate = None
                                    THEN doc[1].lastStatusUpdate ELSE upd.lastStatusUpdate])

NoReminderUpdate ==
    [reminderCount |-> None, isActive |-> None, lastReminderSent |-> None,
     lastStatusUpdate |-> None]

\* ---------------------------------------------------------------- ...WithReminder... wrappers
\* database.ts exports three wrappers that keep the reminder record next to the
\* session operations.  No command handler calls them (the handlers of
\* calendar.ts call createCheckinSession, completeCheckinSession and
\* addStatusUpdate); they are the only writers of status_reminders besides the
\* poll, and are modelled as direct calls.
createCheckinSessionWithReminder(p, u, notes) ==
    /\ Issue(p)
    /\ Accept(p, [IdleProc("none") EXCEPT !.op = "createCheckinSessionWithReminder",
                                          !.pc = "ci_mint", !.user = u, !.arg = notes])
    /\ UNCHANGED <<remVars, now, userStatus, sessions, breaks, updates>>

\* createStatusReminder: doc(userId).set(reminderData)
createStatusReminder_set(p) ==
    LET l == proc[p]
    IN /\ l.pc = "cr_set"
       /\ reminders' = [reminders EXCEPT ![l.user] =
                            Some(NewReminder(generateSessionId(l.user, l.now)))]
       /\ Finish(p, "ok")
       /\ UNCHANGED <<now, userStatus, sessions, breaks, updates, ncmd, overlaps,
                      sent, failed, sched, polled, faults, late>>

completeCheckinSessionWithReminder(p, sid, notes) ==
    /\ Issue(p)
    /\ Accept(p, [IdleProc("none") EXCEPT !.op = "completeCheckinSessionWithReminder",
                                          !.pc = "cw_get", !.session = Some(sid),
                                          !.arg = notes])
    /\ UNCHANGED <<remVars, now, userStatus, sessions, breaks, updates>>

\* getCheckinSession(sessionId); throws when the session does not exist; the
\* user whose status and reminder are written is session.userId
completeCheckinSessionWithReminder_get(p) ==
    LET l == proc[p]
        sid == l.session[1]
    IN /\ l.pc = "cw_get"
       /\ IF sid \notin DOMAIN sessions
          THEN Finish(p, "SessionNotFoundError")
          ELSE proc' = [proc EXCEPT ![p].user = sessions[sid].userId, ![p].pc = "cc_get"]
       /\ UNCHANGED <<remVars, now, userStatus, sessions, breaks, updates, ncmd, overlaps>>

\* deactivateStatusReminder: updateStatusReminder(userId, {isActive: false})
deactivateStatusReminder_update(p) ==
    LET l == proc[p]
    IN /\ l.pc = "dr_update"
       /\ reminders' = [reminders EXCEPT ![l.user] =
                updateStatusReminder(@, [NoReminderUpdate EXCEPT !.isActive = Some(FALSE)])]
       /\ Finish(p, "ok")
       /\ UNCHANGED <<now, userStatus, sessions, breaks, updates, ncmd, overlaps,
                      sent, failed, sched, polled, faults, late>>

addStatusUpdateWithReminderUpdate(p, sid, u, text) ==
    /\ Issue(p)
    /\ Accept(p, [IdleProc("none") EXCEPT !.op = "addStatusUpdateWithReminderUpdate",
                                          !.pc = "as_latest", !.now = now, !.user = u,
                                          !.session = Some(sid), !.arg = text])
    /\ UNCHANGED <<remVars, now, userStatus, sessions, breaks, updates>>

\* getStatusReminder(userId); if (reminder && reminder.isActive) ...
addStatusUpdateWithReminderUpdate_get(p) ==
    LET l == proc[p]
        r == reminders[l.user]
    IN /\ l.pc = "ur_get"
       /\ IF r # None /\ r[1].isActive
          THEN proc' = [proc EXCEPT ![p].pc = "ur_update"]
          ELSE Finish(p, "ok")
       /\ UNCHANGED <<remVars, now, userStatus, sessions, breaks, updates, ncmd, overlaps>>

\* updateStatusReminder(userId, {lastStatusUpdate: new Date()})
addStatusUpdateWithReminderUpdate_update(p) ==
    LET l == proc[p]
    IN /\ l.pc = "ur_update"
       /\ reminders' = [reminders EXCEPT ![l.user] =
                updateStatusReminder(@, [NoReminderUpdate EXCEPT
                                            !.lastStatusUpdate = Some(now)])]
       /\ Finish(p, "ok")
       /\ UNCHANGED <<now, userStatus, sessions, breaks, updates, ncmd, overlaps,
                      sent, failed, sched, polled, faults, late>>

\* ---------------------------------------------------------------- the reminder poll
\* getUserCurrentState(userId) as the poll uses it: the status document, the
\* session currentSessionId resolves to, and the latest of its status updates
getUserCurrentState(u) ==
    LET doc == userStatus[u]
        sid == doc[1].currentSessionId
        found == IsSome(sid) /\ sid[1] \in DOMAIN sessions
    IN IF doc = None THEN None
       ELSE Some([status |-> doc[1],
                  currentSession |-> IF found THEN sid ELSE None,
                  recentStatusUpdates |-> IF found THEN getLatestStatusUpdate(sid[1])
                                                   ELSE None])

\* mutant: only a checked-out user is skipped
Notifiable_notCheckedOut(userState) ==
    /\ userState # None
    /\ userState[1].status.status # "checked-out"

\* the negation of: !userState || userState.status.status !== 'checked-in'
Notifiable(userState) ==
    /\ userState # None
    /\ userState[1].status.status = "checked-in"

\* mutant: a reminder is due as soon as one poll interval has passed
Due_afterOnePoll(reminder, userState, t) ==
    LET s == userState[1]
        known == IsSome(reminder.lastStatusUpdate) \/ IsSome(s.recentStatusUpdates)
                    \/ IsSome(s.currentSession)
        lastActivityTime ==
            IF IsSome(reminder.lastStatusUpdate) THEN reminder.lastStatusUpdate[1]
            ELSE IF IsSome(s.recentStatusUpdates) THEN s.recentStatusUpdates[1].timestamp
            ELSE sessions[s.currentSession[1]].checkinTime
    IN /\ known
       /\ t - lastActivityTime >= CHECK_INTERVAL_MS
       /\ IsSome(reminder.lastReminderSent)
            => t - reminder.lastReminderSent[1] >= REMINDER_INTERVAL_MS

\* mutant: no throttle on the time since the last reminder
Due_noThrottle(reminder, userState, t) ==
    LET s == userState[1]
        known == IsSome(reminder.lastStatusUpdate) \/ IsSome(s.recentStatusUpdates)
                    \/ IsSome(s.currentSession)
        lastActivityTime ==
            IF IsSome(reminder.lastStatusUpdate) THEN reminder.lastStatusUpdate[1]
            ELSE IF IsSome(s.recentStatusUpdates) THEN s.recentStatusUpdates[1].timestamp
            ELSE sessions[s.currentSession[1]].checkinTime
    IN /\ known
       /\ t - lastActivityTime >= REMINDER_INTERVAL_MS

\* mutant: due only when more than the interval has passed
Due_strictlyAfter(reminder, userState, t) ==
    LET s == userState[1]
        known == IsSome(reminder.lastStatusUpdate) \/ IsSome(s.recentStatusUpdates)
                    \/ IsSome(s.currentSession)
        lastActivityTime ==
            IF IsSome(reminder.lastStatusUpdate) THEN reminder.lastStatusUpdate[1]
            ELSE IF IsSome(s.recentStatusUpdates) THEN s.recentStatusUpdates[1].timestamp
            ELSE sessions[s.currentSession[1]].checkinTime
    IN /\ known
       /\ t - lastActivityTime > REMINDER_INTERVAL_MS
       /\ IsSome(reminder.lastReminderSent)
            => t - reminder.lastReminderSent[1] >= REMINDER_INTERVAL_MS

\* mutant: due only at the instant the interval is reached, not after it
Due_onlyAtInterval(reminder, userState, t) ==
    LET s == userState[1]
        known == IsSome(reminder.lastStatusUpdate) \/ IsSome(s.recentStatusUpdates)
                    \/ IsSome(s.currentSession)
        lastActivityTime ==
            IF IsSome(reminder.lastStatusUpdate) THEN reminder.lastStatusUpdate[1]
            ELSE IF IsSome(s.recentStatusUpdates) THEN s.recentStatusUpdates[1].timestamp
            ELSE sessions[s.currentSession[1]].checkinTime
    IN /\ known
       /\ t - lastActivityTime = REMINDER_INTERVAL_MS
       /\ IsSome(reminder.lastReminderSent)
            => t - reminder.lastReminderSent[1] >= REMINDER_INTERVAL_MS

\* the decision of checkAndSendStatusReminders for one reminder: the last
\* status activity is reminder.lastStatusUpdate, else the latest status update,
\* else the check-in; due when 45 minutes have passed since it and no reminder
\* was sent in the last 45 minutes
Due(reminder, userState, t) ==
    LET s == userState[1]
        known == IsSome(reminder.lastStatusUpdate) \/ IsSome(s.recentStatusUpdates)
                    \/ IsSome(s.currentSession)
        lastActivityTime ==
            IF IsSome(reminder.lastStatusUpdate) THEN reminder.lastStatusUpdate[1]
            ELSE IF IsSome(s.recentStatusUpdates) THEN s.recentStatusUpdates[1].timestamp
            ELSE sessions[s.currentSession[1]].checkinTime
    IN /\ known
       /\ t - lastActivityTime >= REMINDER_INTERVAL_MS
       /\ IsSome(reminder.lastReminderSent)
            => t - reminder.lastReminderSent[1] >= REMINDER_INTERVAL_MS

\* the for loop goes on to the next reminder, or the poll ends
NextReminder(s) == IF s.todo = {} THEN IdleSched ELSE [s EXCEPT !.pc = "check"]

\* setInterval fires: activeReminders = await getActiveStatusReminders(); now
checkAndSendStatusReminders_get ==
    LET active == {u \in Team : reminders[u] # None /\ reminders[u][1].isActive}
    IN /\ sched.pc = "idle"
       /\ ~polled
       /\ Quiescent
       /\ polled' = TRUE
       /\ sched' = NextReminder([pc |-> "check", now |-> now, user |-> "u1",
                                 todo |-> active,
                                 snapshot |-> [u \in active |-> reminders[u][1]]])
       /\ UNCHANGED <<now, userStatus, sessions, breaks, updates, proc, ncmd, overlaps,
                      reminders, sent, failed, faults, late>>

\* one turn of the loop: getUserCurrentState, then skip or sendStatusReminder
checkAndSendStatusReminders_check ==
    /\ sched.pc = "check"
    /\ \E u \in sched.todo :
        LET userState == getUserCurrentState(u)
            rest == [sched EXCEPT !.todo = @ \ {u}]
        IN sched' = IF Notifiable(userState) /\ Due(sched.snapshot[u], userState, sched.now)
                    THEN [rest EXCEPT !.pc = "send", !.user = u]
                    ELSE NextReminder(rest)
    /\ UNCHANGED <<now, userStatus, sessions, breaks, updates, proc, ncmd, overlaps,
                   reminders, sent, failed, polled, faults, late>>

\* sendStatusReminder: the state is resolved again before the message is built
sendStatusReminder_state ==
    /\ sched.pc = "send"
    /\ sched' = IF Notifiable(getUserCurrentState(sched.user))
                THEN [sched EXCEPT !.pc = "post"]
                ELSE NextReminder(sched)
    /\ UNCHANGED <<now, userStatus, sessions, breaks, updates, proc, ncmd, overlaps,
                   reminders, sent, failed, polled, faults, late>>

\* mutant: the reminder record is updated whatever postMessage returned
sendStatusReminder_post_recordAlways ==
    /\ sched.pc = "post"
    /\ \E ok \in BOOLEAN :
        IF ok
        THEN /\ sent' = sent \cup {<<sched.user, now>>}
             /\ UNCHANGED failed
        ELSE /\ failed' = failed \cup {<<sched.user, now>>}
             /\ UNCHANGED sent
    /\ sched' = [sched EXCEPT !.pc = "record"]
    /\ UNCHANGED <<now, userStatus, sessions, breaks, updates, proc, ncmd, overlaps,
                   reminders, polled, faults, late>>

\* app.client.chat.postMessage: result.ok, or a failure that is only logged
sendStatusReminder_post ==
    /\ sched.pc = "post"
    /\ \E ok \in BOOLEAN :
        IF ok
        THEN /\ sent' = sent \cup {<<sched.user, now>>}
             /\ sched' = [sched EXCEPT !.pc = "record"]
             /\ UNCHANGED failed
        ELSE /\ failed' = failed \cup {<<sched.user, now>>}
             /\ sched' = NextReminder(sched)
             /\ UNCHANGED sent
    /\ UNCHANGED <<now, userStatus, sessions, breaks, updates, proc, ncmd, overlaps,
                   reminders, polled, faults, late>>

\* mutant: the record update stamps lastReminderSent but does not count the reminder
sendStatusReminder_record_noCount ==
    LET r == reminders[sched.user]
    IN /\ sched.pc = "record"
       /\ reminders' = [reminders EXCEPT ![sched.user] =
                IF r = None THEN None
                ELSE updateStatusReminder(@, [NoReminderUpdate EXCEPT
                                                !.lastReminderSent = Some(now)])]
       /\ sched' = NextReminder(sched)
       /\ UNCHANGED <<now, userStatus, sessions, breaks, updates, proc, ncmd, overlaps,
                      sent, failed, polled, faults, late>>

\* mutant: the record update counts the reminder but does not stamp lastReminderSent
sendStatusReminder_record_noStamp ==
    LET r == reminders[sched.user]
    IN /\ sched.pc = "record"
       /\ reminders' = [reminders EXCEPT ![sched.user] =
                IF r = None THEN None
                ELSE updateStatusReminder(@, [NoReminderUpdate EXCEPT
                                                !.reminderCount = Some(r[1].reminderCount + 1)])]
       /\ sched' = NextReminder(sched)
       /\ UNCHANGED <<now, userStatus, sessions, breaks, updates, proc, ncmd, overlaps,
                      sent, failed, polled, faults, late>>

\* getStatusReminder; updateStatusReminder({lastReminderSent: new Date(),
\* reminderCount: reminder.reminderCount + 1})
sendStatusReminder_record ==
    LET r == reminders[sched.user]
    IN /\ sched.pc = "record"
       /\ reminders' = [reminders EXCEPT ![sched.user] =
                IF r = None THEN None
                ELSE updateStatusReminder(@, [NoReminderUpdate EXCEPT
                                                !.lastReminderSent = Some(now),
                                                !.reminderCount = Some(r[1].reminderCount + 1)])]
       /\ sched' = NextReminder(sched)
       /\ UNCHANGED <<now, userStatus, sessions, breaks, updates, proc, ncmd, overlaps,
                      sent, failed, polled, faults, late>>

\* The clock reaches the next poll instant.  Its origin is the first check-in:
\* before any session exists there is no reminder record and a poll does nothing.
TickPoll ==
    /\ Quiescent
    /\ sched.pc = "idle"
    /\ polled
    /\ DOMAIN sessions # {}
    /\ now + CHECK_INTERVAL_MS <= RemMaxPolls * CHECK_INTERVAL_MS
    /\ now' = now + CHECK_INTERVAL_MS
    /\ polled' = FALSE
    /\ UNCHANGED <<userStatus, sessions, breaks, updates, proc, ncmd, overlaps,
                   reminders, sent, failed, sched, faults, late>>

\* a command arrives, or a wrapper is called: one value of each argument
Arrival(p) ==
    \/ \E u \in Users : handleCheckin(p, u, "")
    \/ \E u \in Users : handleCheckout(p, u, "")
    \/ \E u \in Users : handleBreakStart(p, u, "lunch")
    \/ \E u \in Users : handleBreakEnd(p, u)
    \/ \E u \in Users : handleStatusUpdate(p, u, "a")
    \/ \E u \in Users : createCheckinSessionWithReminder(p, u, "")
    \/ \E sid \in DOMAIN sessions : completeCheckinSessionWithReminder(p, sid, "")
    \/ \E sid \in DOMAIN sessions :
            addStatusUpdateWithReminderUpdate(p, sid, sessions[sid].userId, "b")

\* the steps a handler or a wrapper takes once it has started
Step(p) ==
    \/ createCheckinSession_mint(p)
    \/ createCheckinSession_set(p)
    \/ createCheckinSession_status(p)
    \/ createStatusReminder_set(p)
    \/ GetUserCurrentState(p)
    \/ handleCheckout_decide(p)
    \/ EndBreak(p)
    \/ completeCheckinSessionWithReminder_get(p)
    \/ completeCheckinSession_get(p)
    \/ completeCheckinSession_session(p)
    \/ completeCheckinSession_status(p)
    \/ deactivateStatusReminder_update(p)
    \/ handleBreakStart_decide(p)
    \/ startBreak_break(p)
    \/ startBreak_session(p)
    \/ startBreak_getStatus(p)
    \/ startBreak_status(p)
    \/ handleBreakEnd_decide(p)
    \/ handleStatusUpdate_decide(p)
    \/ addStatusUpdate_latest(p)
    \/ addStatusUpdate_update(p)
    \/ addStatusUpdate_session(p)
    \/ addStatusUpdate_getStatus(p)
    \/ addStatusUpdate_status(p)
    \/ addStatusUpdateWithReminderUpdate_get(p)
    \/ addStatusUpdateWithReminderUpdate_update(p)

\* commands, direct calls of the wrappers and the poll, one at a time
NextRem ==
    \/ TickPoll
    \/ ncmd < RemMaxCmds /\ Arrival("p1")
    \/ Step("p1")
    \/ checkAndSendStatusReminders_get
    \/ checkAndSendStatusReminders_check
    \/ sendStatusReminder_state
    \/ sendStatusReminder_post
    \/ sendStatusReminder_record

SpecRem == Init /\ [][NextRem]_vars

\* ================================================================ properties
StatusOf(u) == IF userStatus[u] = None THEN "none" ELSE userStatus[u][1].status

ActiveSessions(u) ==
    {sid \in DOMAIN sessions : sessions[sid].userId = u /\ sessions[sid].status = "active"}

BreaksOf(sid) == {k \in DOMAIN breaks : k[1] = sid}
ActiveBreaks(sid) == {k \in BreaksOf(sid) : breaks[k].status = "active"}
CompletedBreaks(sid) == {k \in BreaksOf(sid) : breaks[k].status = "completed"}

RECURSIVE SumDurations(_)
SumDurations(ks) ==
    IF ks = {} THEN 0
    ELSE LET k == CHOOSE x \in ks : TRUE
         IN breaks[k].duration[1] + SumDurations(ks \ {k})

\* C1: a check-in issued while the user's status is checked-in or on-break is
\* rejected (AlreadyActiveError): no handler gets past the check-in gate in such
\* a state, no session document is written in such a state, and the rejecting
\* step leaves user_status, the sessions, the breaks and the updates unchanged.
C1_CheckinRejectedWhileActive ==
    [][\A p \in Procs :
        /\ (proc[p].pc = "idle" /\ proc'[p].op = "checkin")
              => StatusOf(proc'[p].user) \notin {"checked-in", "on-break"}
        /\ (proc[p].pc = "ci_set" /\ proc'[p].pc = "ci_status")
              => /\ StatusOf(proc[p].user) \notin {"checked-in", "on-break"}
                 /\ ActiveSessions(proc[p].user) = {}
        /\ (proc[p].pc = "idle" /\ proc'[p].outcome = "AlreadyActiveError"
                                /\ proc'[p] # proc[p])
              => UNCHANGED <<userStatus, sessions, breaks, updates>>
      ]_vars

C1_Witness ==
    /\ proc["p1"].outcome = "AlreadyActiveError"
    /\ StatusOf("u1") = "on-break"
    /\ Cardinality(DOMAIN sessions) = 1

\* C2: in every reachable state, overlapping check-in handlers included, a user
\* has at most one session with status = active.
C2_AtMostOneActiveSession ==
    \A u \in Users : Cardinality(ActiveSessions(u)) <= 1

\* C3: when no operation is in progress, the stored UserStatus has currentSession
\* iff it has currentSessionId iff its status is checked-in or on-break.
C3_ProjectionPresence ==
    Quiescent =>
        \A u \in Users : userStatus[u] # None =>
            LET d == userStatus[u][1]
            IN /\ IsSome(d.currentSession) <=> IsSome(d.currentSessionId)
               /\ IsSome(d.currentSessionId) <=> d.status \in {"checked-in", "on-break"}

\* C4: when no operation is in progress, the stored
\* UserStatus.currentSession.currentBreak is present iff status = on-break.
C4_CurrentBreakIffOnBreak ==
    Quiescent =>
        \A u \in Users : userStatus[u] # None =>
            (HasCurrentBreak(userStatus[u][1]) <=> userStatus[u][1].status = "on-break")

C6_TotalWorkTime ==
    /\ \A sid \in DOMAIN sessions :
        sessions[sid].status = "completed" =>
            /\ IsSome(sessions[sid].totalWorkTime) /\ IsSome(sessions[sid].checkoutTime)
            /\ sessions[sid].totalWorkTime[1] =
                  Round(sessions[sid].checkoutTime[1] - sessions[sid].checkinTime, MinuteMs)
                  - sessions[sid].totalBreakTime
    /\ TotalWorkTime(0, 480 * MinuteMs, 45) = 435

\* a session checked out during its second break, with more break minutes than
\* rounded elapsed minutes
C6_Witness ==
    \E sid \in DOMAIN sessions :
        /\ sessions[sid].status = "completed"
        /\ sessions[sid].totalBreakTime = 2
        /\ sessions[sid].totalWorkTime = Some(-1)

\* C7: when a check-out issued while on-break completes, the break that was in
\* progress is completed with an endTime, its duration is part of the session's
\* totalBreakTime, and the session has no active BreakRecord.
C7_CheckoutEndsBreak ==
    [][\A p \in Procs :
        (/\ proc[p].op = "checkout"
         /\ proc[p].status # None /\ proc[p].status[1].status = "on-break"
         /\ proc[p].pc # "idle" /\ proc'[p] = IdleProc("ok"))
        => LET sid == proc[p].session[1]
               key == <<sid, proc[p].status[1].currentSession[1].currentBreak[1].id>>
           IN /\ sessions[sid].status = "completed"
              /\ key \in CompletedBreaks(sid)
              /\ IsSome(breaks[key].endTime) /\ IsSome(breaks[key].duration)
              /\ ActiveBreaks(sid) = {}
              /\ sessions[sid].totalBreakTime = SumDurations(CompletedBreaks(sid))
      ]_vars

\* a check-out that read on-break, ended the break and completed the session,
\* about to write the projection
C7_Witness ==
    /\ proc["p1"].op = "checkout" /\ proc["p1"].pc = "cc_status"
    /\ proc["p1"].status[1].status = "on-break"
    /\ LET sid == proc["p1"].session[1]
       IN /\ sessions[sid].status = "completed"
          /\ sessions[sid].totalBreakTime = 1
          /\ breaks[<<sid, proc["p1"].activeBreak[1]>>].duration = Some(1)

\* C8: a start-break issued while the user's status is on-break is rejected
\* (AlreadyOnBreakError): no BreakRecord is created, breakCount is not
\* incremented and the stored currentBreak is unchanged.
C8_BreakStartRejectedOnBreak ==
    [][\A p \in Procs :
        (/\ proc[p].op = "breakstart" /\ proc[p].pc = "decide" /\ proc'[p] # proc[p]
         /\ StatusOf(proc[p].user) = "on-break")
        => /\ proc'[p] = IdleProc("AlreadyOnBreakError")
           /\ UNCHANGED <<userStatus, sessions, breaks, updates>>
      ]_vars

C8_Witness ==
    /\ proc["p1"].outcome = "AlreadyOnBreakError"
    /\ StatusOf("u1") = "on-break"
    /\ \E sid \in DOMAIN sessions :
          sessions[sid].breakCount = 1 /\ Cardinality(BreaksOf(sid)) = 1

\* C9: an end-break issued while the user's status is not on-break (checked-in,
\* checked-out or no record) is rejected (NotOnBreakError): no BreakRecord is
\* modified and no session's totalBreakTime changes.
C9_BreakEndRejectedOffBreak ==
    [][\A p \in Procs :
        (/\ proc[p].op = "breakend" /\ proc[p].pc = "decide" /\ proc'[p] # proc[p]
         /\ StatusOf(proc[p].user) # "on-break")
        => /\ proc'[p] = IdleProc("NotOnBreakError")
           /\ UNCHANGED <<userStatus, sessions, breaks, updates>>
      ]_vars

\* rejected right after a break was ended: the projection still names that break
C9_Witness ==
    /\ proc["p1"].outcome = "NotOnBreakError"
    /\ StatusOf("u1") = "checked-in"
    /\ HasCurrentBreak(userStatus["u1"][1])
    /\ \E sid \in DOMAIN sessions : sessions[sid].totalBreakTime = 1

\* C10: in every reachable state, overlapping start-break handlers included,
\* each session has at most one BreakRecord with status = active.
C10_AtMostOneActiveBreak ==
    \A sid \in DOMAIN sessions : Cardinality(ActiveBreaks(sid)) <= 1

\* ---------------------------------------------------------------- status updates
UpdatesOf(sid) == {k \in DOMAIN updates : k[1] = sid}

\* the updates of the session that come before update k in timestamp order
EarlierUpdates(k) == {j \in UpdatesOf(k[1]) : updates[j].timestamp < updates[k].timestamp}

\* C11: for every session, in timestamp order, each StatusUpdate's
\* previousStatus is the status text of the update just before it, and the
\* first update has no previousStatus; overlapping add-status-update calls
\* included.
C11_PreviousStatusChain ==
    \A k \in DOMAIN updates :
        LET before == EarlierUpdates(k)
        IN IF before = {}
           THEN updates[k].previousStatus = None
           ELSE LET j == CHOOSE x \in before :
                            \A y \in before : updates[y].timestamp <= updates[x].timestamp
                IN updates[k].previousStatus = Some(updates[j].status)

\* C16: end-break called with a break id that has no BreakRecord under the given
\* session fails with BreakNotFoundError and changes no break document, no
\* session field and no UserStatus field.
C16_EndBreakUnknownBreak ==
    [][\A p \in Procs :
        (/\ proc[p].pc = "eb_get" /\ proc'[p] # proc[p]
         /\ <<proc[p].session[1], proc[p].activeBreak[1]>> \notin DOMAIN breaks)
        => /\ proc'[p] = IdleProc("BreakNotFoundError")
           /\ UNCHANGED <<userStatus, sessions, breaks, updates>>
      ]_vars

\* the call named a break id of another moment while the user was on break
C16_Witness ==
    /\ proc["p1"].outcome = "BreakNotFoundError"
    /\ StatusOf("u1") = "on-break"
    /\ \E sid \in DOMAIN sessions :
          Cardinality(ActiveBreaks(sid)) = 1 /\ sessions[sid].totalBreakTime = 0

\* the session the stored UserStatus of u points to, if it resolves
ResolvesSession(u) ==
    /\ userStatus[u] # None
    /\ IsSome(userStatus[u][1].currentSessionId)
    /\ userStatus[u][1].currentSessionId[1] \in DOMAIN sessions

\* C17: a check-out issued while the user's status is checked-out, or the user
\* has no status record, or no session resolves for currentSessionId, is
\* rejected (NotCheckedInError): every step of that handler, from the command's
\* arrival to its return, leaves the sessions, the breaks, the updates and
\* user_status unchanged.
C17_CheckoutRejectedWhenNotCheckedIn ==
    [][\A p \in Procs :
        LET u == proc'[p].user
            notIn == StatusOf(u) \in {"none", "checked-out"} \/ ~ResolvesSession(u)
        IN /\ (proc[p].pc = "idle" /\ proc'[p].op = "checkout" /\ notIn)
                => /\ proc'[p].pc \in {"gs_session", "decide"}
                   /\ UNCHANGED <<userStatus, sessions, breaks, updates>>
           /\ (proc[p].op = "checkout" /\ proc[p].pc \in {"gs_session", "gs_breaks"}
                                       /\ proc'[p] # proc[p] /\ notIn)
                => /\ proc'[p].pc \in {"gs_breaks", "decide"}
                   /\ UNCHANGED <<userStatus, sessions, breaks, updates>>
           /\ (proc[p].op = "checkout" /\ proc[p].pc = "decide" /\ proc'[p] # proc[p]
                 /\ (StatusOf(proc[p].user) \in {"none", "checked-out"}
                        \/ ~ResolvesSession(proc[p].user)))
                => /\ proc'[p] = IdleProc("NotCheckedInError")
                   /\ UNCHANGED <<userStatus, sessions, breaks, updates>>
      ]_vars

\* a second check-out after a completed one: the status is checked-out while
\* currentSessionId still resolves to the completed session
C17_Witness ==
    /\ proc["p1"].outcome = "NotCheckedInError"
    /\ StatusOf("u1") = "checked-out"
    /\ ResolvesSession("u1")
    /\ \A sid \in DOMAIN sessions : sessions[sid].status = "completed"

\* C19: once a session's status is completed, its status, checkoutTime and
\* totalWorkTime never change in any later step, two overlapping check-out
\* handlers of the same user included.
C19_CompletedSessionFrozen ==
    [][\A sid \in DOMAIN sessions :
        sessions[sid].status = "completed" =>
            /\ sessions'[sid].status = "completed"
            /\ sessions'[sid].checkoutTime = sessions[sid].checkoutTime
            /\ sessions'[sid].totalWorkTime = sessions[sid].totalWorkTime
      ]_vars

\* C20: the step that completes a check-in leaves a fresh currentSession
\* projection in the stored UserStatus: totalBreakTime = 0, statusUpdateCount =
\* 0, checkinTime = the new session's checkinTime, no currentBreak and no
\* currentWorkStatus.
C20_FreshProjectionAfterCheckin ==
    [][\A p \in Procs :
        (proc[p].pc = "ci_status" /\ proc'[p] = IdleProc("ok"))
        => userStatus'[proc[p].user][1].currentSession =
              Some([checkinTime |-> proc[p].now, totalBreakTime |-> 0,
                    statusUpdateCount |-> 0, currentWorkStatus |-> None,
                    currentBreak |-> None])
      ]_vars

\* ---------------------------------------------------------------- reminder properties
\* C18: when the check-in command returns successfully the user has a
\* StatusReminder with isActive = true, reminderCount = 0 and the new session's
\* id; when the check-out command returns successfully the user's StatusReminder
\* has isActive = false.
C18_ReminderFollowsSession ==
    [][\A p \in Procs :
        /\ (proc[p].op = "checkin" /\ proc[p].pc = "ci_status" /\ proc'[p] = IdleProc("ok"))
            => reminders'[proc[p].user] =
                    Some(NewReminder(generateSessionId(proc[p].user, proc[p].now)))
        /\ (proc[p].op = "checkout" /\ proc[p].pc = "cc_status" /\ proc'[p] = IdleProc("ok"))
            => /\ reminders'[proc[p].user] # None
               /\ ~reminders'[proc[p].user][1].isActive
      ]_vars

\* the time of the user's most recent status activity, read from the store: the
\* reminder's lastStatusUpdate, else the newest status update of the current
\* session, else the current session's check-in
LastStatusActivity(u) ==
    LET r == reminders[u][1]
        sid == userStatus[u][1].currentSessionId[1]
        stamps == {updates[k].timestamp : k \in UpdatesOf(sid)}
    IN IF IsSome(r.lastStatusUpdate) THEN r.lastStatusUpdate[1]
       ELSE IF stamps # {} THEN CHOOSE t \in stamps : \A x \in stamps : x <= t
       ELSE sessions[sid].checkinTime

\* the poll delivers a reminder to u in this step
Delivers(u) == <<u, now>> \in sent' \ sent

\* C12: a reminder is delivered only to a checked-in user with a reminder
\* record, and never at a time earlier than 45 minutes after the user's most
\* recent status activity.
C12_NoReminderBeforeInterval ==
    [][\A u \in Users :
        Delivers(u) =>
            /\ reminders[u] # None
            /\ StatusOf(u) = "checked-in"
            /\ now >= LastStatusActivity(u) + REMINDER_INTERVAL_MS
      ]_vars

\* a reminder went out exactly 45 minutes after a status update that was
\* recorded one poll interval after the check-in
C12_Witness ==
    /\ reminders["u1"] # None
    /\ reminders["u1"][1].lastStatusUpdate = Some(CHECK_INTERVAL_MS)
    /\ sent = {<<"u1", CHECK_INTERVAL_MS + REMINDER_INTERVAL_MS>>}

DeliveredTo(u) == {e \in sent : e[1] = u}

\* C15: a step of the reminder poll taken while the user's stored status is
\* on-break or checked-out, or while the user has no status record, delivers
\* no notification to that user and leaves the user's reminder record
\* (reminderCount, lastReminderSent and the rest) unchanged.
C15_NoReminderUnlessCheckedIn ==
    [][\A u \in Users :
        (sched' # sched /\ StatusOf(u) # "checked-in")
        => /\ {e \in sent' : e[1] = u} = DeliveredTo(u)
           /\ reminders'[u] = reminders[u]
      ]_vars

\* a poll has run and ended while the user was on break with an active
\* reminder that was otherwise due, and nothing was ever delivered
C15_Witness ==
    /\ sched.pc = "idle" /\ polled
    /\ StatusOf("u1") = "on-break"
    /\ reminders["u1"] # None /\ reminders["u1"][1].isActive
    /\ reminders["u1"][1].reminderCount = 0
    /\ now >= LastStatusActivity("u1") + REMINDER_INTERVAL_MS
    /\ sent = {} /\ failed = {}

\* C14: after a status update posted at time U, no reminder is delivered to
\* that user at a time earlier than U + 45 minutes, whatever the earlier
\* activity and the earlier reminders were.
C14_StatusUpdateResetsWindow ==
    [][\A u \in Users :
        Delivers(u) =>
            \A k \in DOMAIN updates :
                sessions[k[1]].userId = u
                    => now >= updates[k].timestamp + REMINDER_INTERVAL_MS
      ]_vars

\* u has an active reminder record, is checked-in, and has done nothing since
\* the last status activity at T: the current session began by T, every break
\* of it was over by T, every status update of it was posted by T, and no
\* command is in progress
IdleSince(u, T) ==
    /\ Quiescent
    /\ reminders[u] # None /\ reminders[u][1].isActive
    /\ StatusOf(u) = "checked-in"
    /\ ResolvesSession(u)
    /\ LET sid == userStatus[u][1].currentSessionId[1]
       IN /\ sessions[sid].status = "active"
          /\ sessions[sid].checkinTime <= T
          /\ \A k \in BreaksOf(sid) :
                /\ breaks[k].startTime <= T
                /\ IsSome(breaks[k].endTime) /\ breaks[k].endTime[1] <= T
          /\ \A k \in UpdatesOf(sid) : updates[k].timestamp <= T

\* the poll due at clock value t has run to its end
PollDone(t) == now > t \/ (now = t /\ polled /\ sched.pc = "idle")

\* C13: for a user with an active reminder record who stays checked-in with
\* the last status activity at T and does nothing more, with a poll every 5
\* minutes and a notifier that does not fail, at most one reminder is delivered
\* in [T + 45 min, T + 90 min), and exactly one once the first poll at or after
\* T + 45 min has run.
C13_OneReminderPerWindow ==
    \A u \in Users :
        (reminders[u] # None /\ ResolvesSession(u)) =>
            LET T == LastStatusActivity(u)
                window == {e \in DeliveredTo(u) :
                              /\ e[2] >= T + REMINDER_INTERVAL_MS
                              /\ e[2] < T + 2 * REMINDER_INTERVAL_MS}
            IN (IdleSince(u, T) /\ \A e \in failed : e[1] # u)
                => /\ Cardinality(window) <= 1
                   /\ PollDone(T + REMINDER_INTERVAL_MS) => Cardinality(window) = 1

\* the whole window after a status update has passed: one reminder in it, the
\* next one at its end
C13_Witness ==
    /\ reminders["u1"] # None /\ ResolvesSession("u1")
    /\ IdleSince("u1", CHECK_INTERVAL_MS)
    /\ LastStatusActivity("u1") = CHECK_INTERVAL_MS
    /\ failed = {}
    /\ PollDone(CHECK_INTERVAL_MS + 2 * REMINDER_INTERVAL_MS)
    /\ sent = {<<"u1", CHECK_INTERVAL_MS + REMINDER_INTERVAL_MS>>,
               <<"u1", CHECK_INTERVAL_MS + 2 * REMINDER_INTERVAL_MS>>}

\* ---------------------------------------------------------------- check-out notes
\* C21: the step of a check-out that writes the session leaves notes.checkin as
\* it was stored, with or without checkout notes; it sets notes.checkout to the
\* checkout notes when they are supplied and leaves notes.checkout as stored
\* when they are not; and a session that was never checked out has no
\* notes.checkout.
C21_CheckoutKeepsCheckinNotes ==
    [][/\ \A p \in Procs :
            (proc[p].pc = "cc_session" /\ proc'[p].pc = "cc_status")
            => LET sid == proc[p].session[1]
               IN /\ sessions'[sid].notes.checkin = sessions[sid].notes.checkin
                  /\ sessions'[sid].notes.checkout =
                        IF proc[p].arg = "" THEN sessions[sid].notes.checkout
                        ELSE Some(proc[p].arg)
       /\ \A sid \in DOMAIN sessions' :
            sessions'[sid].status = "active" => sessions'[sid].notes.checkout = None
      ]_vars

\* a session checked in with notes and checked out with notes holds both
C21_Witness ==
    /\ Quiescent
    /\ \E sid \in DOMAIN sessions :
        /\ sessions[sid].status = "completed"
        /\ sessions[sid].notes = [checkin |-> Some("n"), checkout |-> Some("n")]

\* ---------------------------------------------------------------- delivery failure
\* the notifier fails to deliver a reminder to u in this step
FailsToDeliver(u) == <<u, now>> \in failed' \ failed

\* C22: the step in which the notifier fails to deliver a reminder to a user
\* (result not ok, or the call throws) leaves the user's reminder record
\* unchanged and ends sendStatusReminder without going on to the record update;
\* and any step of the poll that changes a reminder record follows a successful
\* delivery to that user in the same poll.  So after a failed delivery
\* reminderCount is not incremented and lastReminderSent is not stamped.
C22_FailedDeliveryLeavesRecord ==
    [][\A u \in Users :
        /\ FailsToDeliver(u) => /\ reminders'[u] = reminders[u]
                                /\ sched'.pc # "record"
        /\ (sched' # sched /\ reminders'[u] # reminders[u])
                => /\ sched.pc = "record" /\ sched.user = u
                   /\ <<u, sched.now>> \in sent
                   /\ <<u, sched.now>> \notin failed
      ]_vars

\* a poll found the user due, the delivery failed, the poll ended, and the
\* record still has reminderCount 0 and no lastReminderSent
C22_Witness ==
    /\ sched.pc = "idle" /\ polled
    /\ failed = {<<"u1", now>>} /\ sent = {}
    /\ StatusOf("u1") = "checked-in"
    /\ reminders["u1"] # None /\ reminders["u1"][1].isActive
    /\ reminders["u1"][1].reminderCount = 0
    /\ reminders["u1"][1].lastReminderSent = None

\* ---------------------------------------------------------------- the poll over several users
\* Store operations of the poll may fail.  Where the failure is caught decides
\* what is skipped.
TeamMaxCmds == 3
TeamMaxPolls == 10
MaxFaults == 1

\* getUserCurrentState(reminder.userId) throws inside the for loop (it logs and
\* rethrows): the loop body has no try of its own, so the catch around the whole
\* of checkAndSendStatusReminders takes it and the loop is over
checkAndSendStatusReminders_check_throws ==
    /\ sched.pc = "check"
    /\ Cardinality(faults) < MaxFaults
    /\ \E u \in sched.todo : faults' = faults \cup {<<u, sched.now>>}
    /\ sched' = IdleSched
    /\ UNCHANGED <<now, userStatus, sessions, breaks, updates, proc, ncmd, overlaps,
                   reminders, sent, failed, polled, late>>

\* getUserCurrentState throws inside sendStatusReminder: its own catch logs and
\* the for loop goes on
sendStatusReminder_state_throws ==
    /\ sched.pc = "send"
    /\ Cardinality(faults) < MaxFaults
    /\ faults' = faults \cup {<<sched.user, sched.now>>}
    /\ sched' = NextReminder(sched)
    /\ UNCHANGED <<now, userStatus, sessions, breaks, updates, proc, ncmd, overlaps,
                   reminders, sent, failed, polled, late>>

\* getStatusReminder fails (caught, returns null) or updateStatusReminder fails
\* (caught, logged): the record is not updated and the for loop goes on
sendStatusReminder_record_fails ==
    /\ sched.pc = "record"
    /\ Cardinality(faults) < MaxFaults
    /\ faults' = faults \cup {<<sched.user, sched.now>>}
    /\ sched' = NextReminder(sched)
    /\ UNCHANGED <<now, userStatus, sessions, breaks, updates, proc, ncmd, overlaps,
                   reminders, sent, failed, polled, late>>

\* the clock reaches the next poll instant, as in TickPoll
TickTeam ==
    /\ Quiescent
    /\ sched.pc = "idle"
    /\ polled
    /\ DOMAIN sessions # {}
    /\ now + CHECK_INTERVAL_MS <= TeamMaxPolls * CHECK_INTERVAL_MS
    /\ now' = now + CHECK_INTERVAL_MS
    /\ polled' = FALSE
    /\ UNCHANGED <<userStatus, sessions, breaks, updates, proc, ncmd, overlaps,
                   reminders, sent, failed, sched, faults, late>>

\* the calls of this specification: any user opens a session with a reminder
\* record, any user starts a break
ArrivalTeam(p) ==
    \/ \E u \in Team : createCheckinSessionWithReminder(p, u, "")
    \/ \E u \in Team : handleBreakStart(p, u, "lunch")

StepTeam(p) ==
    \/ createCheckinSession_mint(p)
    \/ createCheckinSession_set(p)
    \/ createCheckinSession_status(p)
    \/ createStatusReminder_set(p)
    \/ GetUserCurrentState(p)
    \/ handleBreakStart_decide(p)
    \/ startBreak_break(p)
    \/ startBreak_session(p)
    \/ startBreak_getStatus(p)
    \/ startBreak_status(p)

\* calls of two users and the poll, one at a time, with store failures in the poll
NextTeam ==
    \/ TickTeam
    \/ ncmd < TeamMaxCmds /\ ArrivalTeam("p1")
    \/ StepTeam("p1")
    \/ checkAndSendStatusReminders_get
    \/ checkAndSendStatusReminders_check
    \/ checkAndSendStatusReminders_check_throws
    \/ sendStatusReminder_state
    \/ sendStatusReminder_state_throws
    \/ sendStatusReminder_post
    \/ sendStatusReminder_record
    \/ sendStatusReminder_record_fails

SpecTeam == Init /\ [][NextTeam]_vars

\* C23: when a run of the poll ends, every user who had an active reminder at
\* its start, is checked-in and due at its instant, and for whom no store
\* operation and no delivery failed in this run, has been notified in this run,
\* whatever failed for the other users.
C23_FailureSkipsOnlyThatUser ==
    [][(sched.pc # "idle" /\ sched'.pc = "idle") =>
        \A u \in DOMAIN sched.snapshot :
            (/\ <<u, sched.now>> \notin faults'
             /\ <<u, sched.now>> \notin failed'
             /\ Notifiable(getUserCurrentState(u))
             /\ Due(sched.snapshot[u], getUserCurrentState(u), sched.now))
            => <<u, sched.now>> \in sent'
      ]_vars

\* ---------------------------------------------------------------- concurrent mutators
\* C24: whatever an overlapping handler has done in between, the session write
\* of end-break adds the break's duration to the stored totalBreakTime and
\* leaves statusUpdateCount alone, and the session write of add-status-update
\* adds exactly 1 to the stored statusUpdateCount and leaves totalBreakTime
\* alone: no session-level increment is lost.
C24_SessionIncrementsNotLost ==
    [][\A p \in Procs :
        /\ (proc[p].pc = "eb_session" /\ proc'[p].pc = "eb_getStatus")
            => LET sid == proc[p].session[1]
               IN /\ sessions'[sid].totalBreakTime =
                        sessions[sid].totalBreakTime + proc[p].duration
                  /\ sessions'[sid].statusUpdateCount = sessions[sid].statusUpdateCount
        /\ (proc[p].pc = "as_session" /\ proc'[p].pc = "as_getStatus")
            => LET sid == proc[p].session[1]
               IN /\ sessions'[sid].statusUpdateCount = sessions[sid].statusUpdateCount + 1
                  /\ sessions'[sid].totalBreakTime = sessions[sid].totalBreakTime
      ]_vars

\* an end-break and an add-status-update of the same session are both in
\* progress, each has done its session write, and the session holds both: the
\* break's one minute and the one status update
C24_Witness ==
    \E p, q \in Procs :
        /\ proc[p].op = "breakend" /\ proc[p].pc = "eb_getStatus" /\ proc[p].duration = 1
        /\ proc[q].op = "statusupdate" /\ proc[q].pc = "as_getStatus"
        /\ proc[p].session = proc[q].session
        /\ sessions[proc[p].session[1]].totalBreakTime = 1
        /\ sessions[proc[p].session[1]].statusUpdateCount = 1

\* the session the stored UserStatus of u points to is active and the
\* UserStatus carries a currentSession projection of it
HasActiveSession(u) ==
    /\ ResolvesSession(u)
    /\ IsSome(userStatus[u][1].currentSession)
    /\ sessions[userStatus[u][1].currentSessionId[1]].status = "active"

\* the projection's counters agree with the session document's
CountersAgree(u) ==
    LET cs == userStatus[u][1].currentSession[1]
        s == sessions[userStatus[u][1].currentSessionId[1]]
    IN /\ cs.totalBreakTime = s.totalBreakTime
       /\ cs.statusUpdateCount = s.statusUpdateCount

\* the projection's work status is the session document's last work status
WorkStatusAgrees(u) ==
    userStatus[u][1].currentSession[1].currentWorkStatus =
        sessions[userStatus[u][1].currentSessionId[1]].lastWorkStatus

\* C25: end-break and add-status-update each write back the whole currentSession
\* they read earlier: the projection write of add-status-update stores the
\* totalBreakTime it read, that of end-break stores the statusUpdateCount it
\* read, whatever the store holds by then.  With no handler in progress, the
\* projection's counters differ from the session document's only after handlers
\* have overlapped; after an overlap they can differ.
C25_ProjectionUpdateDropped ==
    [][/\ \A p \in Procs :
            /\ (proc[p].pc = "as_status" /\ proc'[p].pc # "as_status")
                => userStatus'[proc[p].user][1].currentSession[1].totalBreakTime =
                      proc[p].userStatus[1].currentSession[1].totalBreakTime
            /\ (proc[p].pc = "eb_status" /\ proc'[p].pc # "eb_status")
                => userStatus'[proc[p].user][1].currentSession[1].statusUpdateCount =
                      proc[p].userStatus[1].currentSession[1].statusUpdateCount
       /\ (Quiescent' /\ overlaps' = 0)
            => \A u \in Users : HasActiveSession(u)' => CountersAgree(u)'
      ]_vars

\* check-in, start-break, then an end-break and an add-status-update that
\* overlapped: both have returned, the session has the break's minute and the
\* status update, and the projection has lost the break's minute
C25_Witness ==
    /\ Quiescent /\ ncmd = 4 /\ overlaps = 1
    /\ HasActiveSession("u1") /\ StatusOf("u1") = "checked-in"
    /\ LET sid == userStatus["u1"][1].currentSessionId[1]
           cs == userStatus["u1"][1].currentSession[1]
       IN /\ sessions[sid].totalBreakTime = 1 /\ sessions[sid].statusUpdateCount = 1
          /\ sessions[sid].breakCount = 1
          /\ cs.statusUpdateCount = 1
          /\ cs.totalBreakTime = 0

\* C26: with operations running one at a time, in every state between two
\* operations where the user has an active session the projection agrees with
\* the session document: currentSession.totalBreakTime = totalBreakTime,
\* currentSession.statusUpdateCount = statusUpdateCount and
\* currentSession.currentWorkStatus = lastWorkStatus.
C26_ProjectionAgreesWithSession ==
    Quiescent =>
        \A u \in Users :
            HasActiveSession(u) => (CountersAgree(u) /\ WorkStatusAgrees(u))

\* ---------------------------------------------------------------- crashes
\* The process dies, or the store fails, after an operation has written the
\* session document and before it has written the user_status projection: the
\* two writes are separate awaits with no transaction around them.  The handler
\* does nothing more.
Crash(p) ==
    /\ proc[p].pc \in {"ci_status", "sb_getStatus", "sb_status", "eb_getStatus",
                       "eb_status", "as_getStatus", "as_status"}
    /\ proc' = [proc EXCEPT ![p] = IdleProc("crashed")]
    /\ UNCHANGED <<remVars, now, userStatus, sessions, breaks, updates, ncmd, overlaps>>

\* one command at a time, any of which may crash between its two writes
NextCrash ==
    \/ Tick
    \/ Handler("p1")
    \/ Crash("p1")

SpecCrash == Init /\ [][NextCrash]_vars

\* C27: whenever an operation returns successfully, crashes of earlier
\* operations between their two writes notwithstanding, the projection's
\* counters agree with the session document's, every session's totalBreakTime
\* is the sum of the durations of its completed breaks, and the user has at
\* most one active session.
C27_CrashInconsistencyHeals ==
    [][\A p \in Procs :
        (proc[p].pc # "idle" /\ proc'[p] = IdleProc("ok"))
        => /\ \A u \in Users : HasActiveSession(u)' => CountersAgree(u)'
           /\ \A sid \in DOMAIN sessions' :
                sessions'[sid].totalBreakTime = SumDurations(CompletedBreaks(sid))'
           /\ \A u \in Users : Cardinality(ActiveSessions(u)') <= 1
      ]_vars

\* ---------------------------------------------------------------- reminder spacing
\* C28: any two reminders delivered to the same user are at least 45 minutes
\* apart, whatever commands and calls came between them (a status update
\* included), within one session or across sessions.
C28_RemindersFarApart ==
    \A e1, e2 \in sent :
        (e1[1] = e2[1] /\ e1[2] < e2[2]) => e2[2] - e1[2] >= REMINDER_INTERVAL_MS

\* two reminders exactly 45 minutes apart with a status update posted between
\* them, in a session that is still active
C28_Witness ==
    /\ HasActiveSession("u1")
    /\ \E e1, e2 \in DeliveredTo("u1") :
        /\ e2[2] = e1[2] + REMINDER_INTERVAL_MS
        /\ sessions[userStatus["u1"][1].currentSessionId[1]].checkinTime < e1[2]
        /\ \E k \in UpdatesOf(userStatus["u1"][1].currentSessionId[1]) :
              e1[2] < updates[k].timestamp /\ updates[k].timestamp < e2[2]

\* ---------------------------------------------------------------- the poll goes on for ever
\* For liveness the poll timer never stops.  Clock values at or beyond the
\* horizon are identified: the clock stays at the horizon while polls go on.  A
\* user who was due before the horizon is still due at it.
FairMaxPolls == 11
FairMaxCmds == 3

TickFair ==
    /\ Quiescent
    /\ sched.pc = "idle"
    /\ polled
    /\ DOMAIN sessions # {}
    /\ now' = IF now < FairMaxPolls * CHECK_INTERVAL_MS THEN now + CHECK_INTERVAL_MS ELSE now
    /\ polled' = FALSE
    /\ UNCHANGED <<userStatus, sessions, breaks, updates, proc, ncmd, overlaps,
                   reminders, sent, failed, sched, faults, late>>

\* the calls of this specification: a session is opened with a reminder record,
\* a status update is posted, the user checks out
ArrivalFair(p) ==
    \/ \E u \in Users : createCheckinSessionWithReminder(p, u, "")
    \/ \E u \in Users : handleStatusUpdate(p, u, "a")
    \/ \E u \in Users : handleCheckout(p, u, "")

\* no break is started here, so getUserCurrentState never reads the breaks
StepFair(p) ==
    \/ createCheckinSession_mint(p)
    \/ createCheckinSession_set(p)
    \/ createCheckinSession_status(p)
    \/ createStatusReminder_set(p)
    \/ getUserCurrentState_session(p)
    \/ handleStatusUpdate_decide(p)
    \/ addStatusUpdate_latest(p)
    \/ addStatusUpdate_update(p)
    \/ addStatusUpdate_session(p)
    \/ addStatusUpdate_getStatus(p)
    \/ addStatusUpdate_status(p)
    \/ handleCheckout_decide(p)
    \/ completeCheckinSession_get(p)
    \/ completeCheckinSession_session(p)
    \/ completeCheckinSession_status(p)

NextFair ==
    \/ TickFair
    \/ ncmd < FairMaxCmds /\ ArrivalFair("p1")
    \/ StepFair("p1")
    \/ checkAndSendStatusReminders_get
    \/ checkAndSendStatusReminders_check
    \/ sendStatusReminder_state
    \/ sendStatusReminder_post
    \/ sendStatusReminder_record

\* postMessage returns result.ok
DeliverySucceeds == sendStatusReminder_post /\ sched'.pc = "record"

\* setInterval keeps firing, every await of a handler and of the poll
\* eventually resolves, and the notifier does not fail for ever
SpecFair ==
    /\ Init /\ [][NextFair]_vars
    /\ WF_vars(TickFair)
    /\ WF_vars(StepFair("p1"))
    /\ WF_vars(checkAndSendStatusReminders_get)
    /\ WF_vars(checkAndSendStatusReminders_check)
    /\ WF_vars(sendStatusReminder_state)
    /\ WF_vars(sendStatusReminder_post)
    /\ WF_vars(sendStatusReminder_record)
    /\ SF_vars(DeliverySucceeds)

FailuresOf(u) == {e \in failed : e[1] = u}

\* the instant of the latest failed delivery to u
LastFailure(u) == CHOOSE t \in {e[2] : e \in FailuresOf(u)} :
                        \A e \in FailuresOf(u) : e[2] <= t

\* a delivery to u has failed, none has succeeded since, and u has stayed
\* checked-in and idle with nothing new since the window that made u due
OwedReminder(u) ==
    /\ FailuresOf(u) # {}
    /\ \A e \in DeliveredTo(u) : e[2] < LastFailure(u)
    /\ IdleSince(u, LastFailure(u) - REMINDER_INTERVAL_MS)

\* the poll that followed the one at t has attempted a delivery to u
RetriedAfter(u, t) ==
    \/ <<u, t + CHECK_INTERVAL_MS>> \in sent
    \/ <<u, t + CHECK_INTERVAL_MS>> \in failed

\* C29: if a delivery to a user fails at one poll and the user is still
\* checked-in with no new status activity at the next poll, that poll attempts
\* the delivery again; and with a poll timer that keeps firing and a notifier
\* that does not fail for ever, a user who is owed a reminder after a failure
\* and stays checked-in and idle eventually receives it.
C29_FailedDeliveryRetried ==
    /\ [](\A e \in failed :
            (IdleSince(e[1], e[2] - REMINDER_INTERVAL_MS) /\ PollDone(e[2] + CHECK_INTERVAL_MS))
                => RetriedAfter(e[1], e[2]))
    /\ \A u \in Users : OwedReminder(u) ~> ~OwedReminder(u)

\* a delivery failed at the poll 45 minutes after the check-in, failed again at
\* the next poll, and succeeded at the one after
C29_Witness ==
    /\ failed = {<<"u1", REMINDER_INTERVAL_MS>>,
                 <<"u1", REMINDER_INTERVAL_MS + CHECK_INTERVAL_MS>>}
    /\ sent = {<<"u1", REMINDER_INTERVAL_MS + 2 * CHECK_INTERVAL_MS>>}
    /\ IdleSince("u1", 0)

\* ---------------------------------------------------------------- the reference instant
\* the user the poll evaluates in this step of its loop
Evaluated(u) ==
    /\ sched.pc = "check" /\ sched' # sched
    /\ u \in sched.todo
    /\ (sched'.pc = "idle" \/ u \notin sched'.todo)

\* no reminder was sent to u in the 45 minutes before t, by the stored record
NotRemindedLately(u, t) ==
    IsSome(reminders[u][1].lastReminderSent)
        => t - reminders[u][1].lastReminderSent[1] >= REMINDER_INTERVAL_MS

\* C30: when the poll evaluates a checked-in user whose current session
\* resolves, the reference instant is the reminder's lastStatusUpdate if set,
\* otherwise the timestamp of the newest status update of the current session
\* if there is one, otherwise the session's checkinTime; the poll goes on to
\* sendStatusReminder for that user exactly when now - reference >= 45 minutes
\* and no reminder was sent in the last 45 minutes.
C30_ReferenceInstant ==
    [][\A u \in Team :
        (Evaluated(u) /\ StatusOf(u) = "checked-in" /\ ResolvesSession(u))
        => ((sched'.pc = "send" /\ sched'.user = u)
                <=> (/\ sched.now - LastStatusActivity(u) >= REMINDER_INTERVAL_MS
                     /\ NotRemindedLately(u, sched.now)))
      ]_vars

\* the poll has found the user due exactly 45 minutes after the newest status
\* update of the session, which is later than the check-in, with no
\* lastStatusUpdate in the reminder record
C30_Witness ==
    /\ sched.pc = "send" /\ sched.user = "u1"
    /\ ResolvesSession("u1")
    /\ reminders["u1"][1].lastStatusUpdate = None
    /\ UpdatesOf(userStatus["u1"][1].currentSessionId[1]) # {}
    /\ sessions[userStatus["u1"][1].currentSessionId[1]].checkinTime
            < LastStatusActivity("u1")
    /\ sched.now = LastStatusActivity("u1") + REMINDER_INTERVAL_MS

\* ---------------------------------------------------------------- the reminder count
\* the reminders delivered to u since u's reminder record was created: the
\* record is created at the check-in of the session it names, whose id carries
\* that instant, and a poll never finds a user due at the instant of the check-in
DeliveredSinceCreated(u) ==
    {e \in DeliveredTo(u) : e[2] > reminders[u][1].sessionId[2]}

CreatesSession == \E p \in Procs : proc[p].pc = "ci_set" /\ proc'[p].pc = "ci_status"
CreatesBreak == \E p \in Procs : proc[p].pc = "sb_break" /\ proc'[p].pc = "sb_session"
CreatesUpdate == \E p \in Procs : proc[p].pc = "as_update" /\ proc'[p].pc = "as_session"

\* C32: every creation gets an identifier no earlier creation of the same kind
\* got (for breaks and status updates: within the session), so every creation
\* adds a document and none overwrites an earlier one, also when two creations
\* read the same clock value.
C32_CreationsGetDistinctIds ==
    [][/\ CreatesSession => DOMAIN sessions' # DOMAIN sessions
       /\ CreatesBreak => DOMAIN breaks' # DOMAIN breaks
       /\ CreatesUpdate => DOMAIN updates' # DOMAIN updates]_vars

\* ---------------------------------------------------------------- end-break twice
\* handler p's endBreak writes the break document (breakRef.update)
EndsBreakRecord(p) == proc[p].pc = "eb_break" /\ proc'[p].pc = "eb_session"

\* every session's totalBreakTime is at most the sum of the durations recorded
\* on its completed breaks
BreakTimeCountedOnce ==
    \A sid \in DOMAIN sessions :
        sessions[sid].totalBreakTime <= SumDurations(CompletedBreaks(sid))

\* C33: when endBreak runs on a break that is already completed (a second
\* /break-end, or a /checkout issued on break, overlapping the first), the
\* break's endTime and duration are not overwritten, and once no operation is
\* in progress totalBreakTime holds each break's duration at most once.
C33_BreakEndedOnce ==
    [][/\ \A p \in Procs :
            LET key == <<proc[p].session[1], proc[p].activeBreak[1]>>
            IN (EndsBreakRecord(p) /\ breaks[key].status = "completed")
               => /\ breaks'[key].endTime = breaks[key].endTime
                  /\ breaks'[key].duration = breaks[key].duration
       /\ Quiescent' => BreakTimeCountedOnce']_vars

\* ---------------------------------------------------------------- after the check-out
\* handler p's createCheckinSession writes the user status
CheckinWritesStatus == \E p \in Procs : proc[p].pc = "ci_status" /\ proc'[p].pc # "ci_status"

\* C34: once the user's status is checked-out, the only step that changes it
\* is the status write of a new check-in; no start-break, end-break or
\* add-status-update that read the user's state before the check-out changes
\* it when it finishes afterwards.
C34_CheckedOutUntilCheckin ==
    [][\A u \in Users :
        (StatusOf(u) = "checked-out" /\ StatusOf(u)' # "checked-out")
        => CheckinWritesStatus]_vars

\* C35: once a session is completed, no step other than a check-in that
\* creates a session adds a BreakRecord or a StatusUpdate to it or changes its
\* breakCount, statusUpdateCount, totalBreakTime or lastWorkStatus, whatever
\* the interleaving of the check-out with the other handlers.
C35_CompletedSessionGetsNothing ==
    [][\A sid \in DOMAIN sessions :
        (sessions[sid].status = "completed" /\ ~CreatesSession)
        => /\ BreaksOf(sid)' = BreaksOf(sid)
           /\ UpdatesOf(sid)' = UpdatesOf(sid)
           /\ sessions'[sid].breakCount = sessions[sid].breakCount
           /\ sessions'[sid].statusUpdateCount = sessions[sid].statusUpdateCount
           /\ sessions'[sid].totalBreakTime = sessions[sid].totalBreakTime
           /\ sessions'[sid].lastWorkStatus = sessions[sid].lastWorkStatus]_vars

\* ---------------------------------------------------------------- the active break
\* the activeBreak of getUserCurrentState(u): when currentSessionId resolves
\* to a session and the projection has a currentBreak, the session's break
\* whose breakId is currentBreak.id
ActiveBreakOf(u) ==
    LET doc == userStatus[u]
    IN IF doc = None \/ doc[1].currentSessionId = None
            \/ doc[1].currentSessionId[1] \notin DOMAIN sessions
            \/ doc[1].currentSession = None
            \/ doc[1].currentSession[1].currentBreak = None
       THEN None
       ELSE LET key == <<doc[1].currentSessionId[1],
                         doc[1].currentSession[1].currentBreak[1].id>>
            IN IF key \in DOMAIN breaks THEN Some(key) ELSE None

OverlapMaxPolls == 11
OverlapMaxCmds == 2

\* the overtaken execution's for loop goes on to the next reminder, or ends
NextLate(s) == IF s.todo = {} THEN IdleLate ELSE [s EXCEPT !.pc = "check"]

\* the clock reaches the next poll instant with no execution running
TickOverlap ==
    /\ Quiescent
    /\ sched.pc = "idle"
    /\ late.pc = "idle"
    /\ polled
    /\ DOMAIN sessions # {}
    /\ now + CHECK_INTERVAL_MS <= OverlapMaxPolls * CHECK_INTERVAL_MS
    /\ now' = now + CHECK_INTERVAL_MS
    /\ polled' = FALSE
    /\ UNCHANGED <<userStatus, sessions, breaks, updates, proc, ncmd, overlaps,
                   reminders, sent, failed, sched, faults, late>>

\* the clock reaches the next poll instant while an execution is still
\* running: the timer fires all the same, and the new execution reads the
\* active reminders and the clock
startStatusReminderService_overtakes ==
    LET active == {u \in Team : reminders[u] # None /\ reminders[u][1].isActive}
    IN /\ sched.pc # "idle"
       /\ late.pc = "idle"
       /\ now + CHECK_INTERVAL_MS <= OverlapMaxPolls * CHECK_INTERVAL_MS
       /\ now' = now + CHECK_INTERVAL_MS
       /\ late' = [pc |-> sched.pc, now |-> sched.now, user |-> sched.user,
                   todo |-> sched.todo, snapshot |-> sched.snapshot, read |-> None]
       /\ sched' = NextReminder([pc |-> "check", now |-> now + CHECK_INTERVAL_MS,
                                 user |-> "u1", todo |-> active,
                                 snapshot |-> [u \in active |-> reminders[u][1]]])
       /\ UNCHANGED <<userStatus, sessions, breaks, updates, proc, ncmd, overlaps,
                      reminders, sent, failed, polled, faults>>

\* the overtaken execution: one turn of the loop
checkAndSendStatusReminders_check_late ==
    /\ late.pc = "check"
    /\ \E u \in late.todo :
        LET userState == getUserCurrentState(u)
            rest == [late EXCEPT !.todo = @ \ {u}]
        IN late' = IF Notifiable(userState) /\ Due(late.snapshot[u], userState, late.now)
                   THEN [rest EXCEPT !.pc = "send", !.user = u]
                   ELSE NextLate(rest)
    /\ UNCHANGED <<now, userStatus, sessions, breaks, updates, proc, ncmd, overlaps,
                   reminders, sent, failed, sched, polled, faults>>

\* the overtaken execution: sendStatusReminder resolves the state again
sendStatusReminder_state_late ==
    /\ late.pc = "send"
    /\ late' = IF Notifiable(getUserCurrentState(late.user))
               THEN [late EXCEPT !.pc = "post"]
               ELSE NextLate(late)
    /\ UNCHANGED <<now, userStatus, sessions, breaks, updates, proc, ncmd, overlaps,
                   reminders, sent, failed, sched, polled, faults>>

\* the overtaken execution: chat.postMessage; its delivery is told apart from
\* one the other execution makes at the same clock value
sendStatusReminder_post_late ==
    /\ late.pc = "post"
    /\ \E ok \in BOOLEAN :
        IF ok
        THEN /\ sent' = sent \cup {<<late.user, now, "late">>}
             /\ late' = [late EXCEPT !.pc = "record"]
             /\ UNCHANGED failed
        ELSE /\ failed' = failed \cup {<<late.user, now>>}
             /\ late' = NextLate(late)
             /\ UNCHANGED sent
    /\ UNCHANGED <<now, userStatus, sessions, breaks, updates, proc, ncmd, overlaps,
                   reminders, sched, polled, faults>>

\* the overtaken execution: reminder = await getStatusReminder(userId)
sendStatusReminder_getReminder_late ==
    /\ late.pc = "record"
    /\ late' = IF reminders[late.user] = None THEN NextLate(late)
               ELSE [late EXCEPT !.pc = "update", !.read = reminders[late.user]]
    /\ UNCHANGED <<now, userStatus, sessions, breaks, updates, proc, ncmd, overlaps,
                   reminders, sent, failed, sched, polled, faults>>

\* the overtaken execution: updateStatusReminder({lastReminderSent: new Date(),
\* reminderCount: reminder.reminderCount + 1}) with the reminder it read
sendStatusReminder_record_late ==
    /\ late.pc = "update"
    /\ reminders' = [reminders EXCEPT ![late.user] =
            IF @ = None THEN None
            ELSE updateStatusReminder(@, [NoReminderUpdate EXCEPT
                        !.lastReminderSent = Some(now),
                        !.reminderCount = Some(late.read[1].reminderCount + 1)])]
    /\ late' = NextLate(late)
    /\ UNCHANGED <<now, userStatus, sessions, breaks, updates, proc, ncmd, overlaps,
                   sent, failed, sched, polled, faults>>

\* the wrapper check-in, /status-update and /checkout between polls, the poll,
\* and a second execution of it overtaking the first
NextOverlap ==
    \/ TickOverlap
    \/ ncmd < OverlapMaxCmds /\ late.pc = "idle" /\ ArrivalFair("p1")
    \/ StepFair("p1")
    \/ checkAndSendStatusReminders_get
    \/ checkAndSendStatusReminders_check
    \/ sendStatusReminder_state
    \/ sendStatusReminder_post
    \/ sendStatusReminder_record
    \/ startStatusReminderService_overtakes
    \/ checkAndSendStatusReminders_check_late
    \/ sendStatusReminder_state_late
    \/ sendStatusReminder_post_late
    \/ sendStatusReminder_getReminder_late
    \/ sendStatusReminder_record_late

SpecOverlap == Init /\ [][NextOverlap]_vars

\* no status activity of u (check-in or status update) at or between the two instants
SameIdlePeriod(u, t1, t2) ==
    /\ \A sid \in DOMAIN sessions :
        sessions[sid].userId = u =>
            ~(t1 <= sessions[sid].checkinTime /\ sessions[sid].checkinTime <= t2)
    /\ \A k \in DOMAIN updates :
        sessions[k[1]].userId = u =>
            ~(t1 <= updates[k].timestamp /\ updates[k].timestamp <= t2)

\* C37: when a second execution of the reminder check starts while the first
\* is still running, two reminders delivered to the same user with no status
\* activity between them are at least 45 minutes apart, and once both
\* executions have ended reminderCount is the number of reminders delivered
\* since the record was created.
C37_OverlappingPollsRemindOnce ==
    /\ \A e1, e2 \in sent :
        (e1 # e2 /\ e1[1] = e2[1] /\ e1[2] <= e2[2] /\ SameIdlePeriod(e1[1], e1[2], e2[2]))
        => e2[2] - e1[2] >= REMINDER_INTERVAL_MS
    /\ (sched.pc = "idle" /\ late.pc = "idle") =>
        \A u \in Users : reminders[u] # None =>
            reminders[u][1].reminderCount = Cardinality(DeliveredSinceCreated(u))

\* ---------------------------------------------------------------- work time
\* the breaks of a completed session are all over, lie between its check-in
\* and its check-out, and no two of them overlap
BreaksSequentialWithin(sid) ==
    /\ \A k \in BreaksOf(sid) :
        /\ breaks[k].status = "completed"
        /\ sessions[sid].checkinTime <= breaks[k].startTime
        /\ breaks[k].startTime <= breaks[k].endTime[1]
        /\ breaks[k].endTime[1] <= sessions[sid].checkoutTime[1]
    /\ \A j, k \in BreaksOf(sid) :
        j # k => \/ breaks[j].endTime[1] <= breaks[k].startTime
                 \/ breaks[k].endTime[1] <= breaks[j].startTime

\* C38: a completed session whose breaks are sequential, do not overlap and
\* lie between check-in and check-out has totalWorkTime >= 0.
C38_WorkTimeNotNegative ==
    \A sid \in DOMAIN sessions :
        (sessions[sid].status = "completed" /\ BreaksSequentialWithin(sid))
        => sessions[sid].totalWorkTime[1] >= 0

\* ---------------------------------------------------------------- counters and documents
\* C39: when no operation is in progress, every session's statusUpdateCount is
\* the number of StatusUpdate documents stored under it and its breakCount is
\* the number of BreakRecord documents stored under it.
C39_CountersCountDocuments ==
    Quiescent =>
        \A sid \in DOMAIN sessions :
            /\ sessions[sid].statusUpdateCount = Cardinality(UpdatesOf(sid))
            /\ sessions[sid].breakCount = Cardinality(BreaksOf(sid))

\* ---------------------------------------------------------------- frame of add-status-update
\* handler p takes a step of addStatusUpdate
AddStatusUpdateStep(p) ==
    /\ proc[p].pc \in {"as_latest", "as_update", "as_session", "as_getStatus", "as_status"}
    /\ proc'[p] # proc[p]

\* C40: no step of addStatusUpdate changes the user's status, currentSessionId,
\* currentSession.checkinTime, currentSession.totalBreakTime or
\* currentSession.currentBreak, nor the session's status, totalBreakTime or
\* breakCount.
C40_StatusUpdateFrame ==
    [][\A p \in Procs :
        AddStatusUpdateStep(p) =>
            LET u == proc[p].user
                sid == proc[p].session[1]
            IN /\ userStatus'[u][1].status = userStatus[u][1].status
               /\ userStatus'[u][1].currentSessionId = userStatus[u][1].currentSessionId
               /\ userStatus'[u][1].currentSession[1].checkinTime
                    = userStatus[u][1].currentSession[1].checkinTime
               /\ userStatus'[u][1].currentSession[1].totalBreakTime
                    = userStatus[u][1].currentSession[1].totalBreakTime
               /\ userStatus'[u][1].currentSession[1].currentBreak
                    = userStatus[u][1].currentSession[1].currentBreak
               /\ sessions'[sid].status = sessions[sid].status
               /\ sessions'[sid].totalBreakTime = sessions[sid].totalBreakTime
               /\ sessions'[sid].breakCount = sessions[sid].breakCount]_vars

\* a status update posted during the second break of a session: the user is
\* still on that break, and the break time of the first is still there
C40_Witness ==
    /\ Quiescent
    /\ proc["p1"].outcome = "ok"
    /\ StatusOf("u1") = "on-break"
    /\ ActiveBreakOf("u1") # None
    /\ breaks[ActiveBreakOf("u1")[1]].status = "active"
    /\ userStatus["u1"][1].currentSession[1].currentWorkStatus = Some("a")
    /\ userStatus["u1"][1].currentSession[1].totalBreakTime = 1
    /\ LET sid == userStatus["u1"][1].currentSessionId[1]
       IN /\ sessions[sid].statusUpdateCount = 1
          /\ sessions[sid].totalBreakTime = 1
          /\ sessions[sid].breakCount = 2
          /\ \E k \in UpdatesOf(sid) :
                updates[k].timestamp >= breaks[ActiveBreakOf("u1")[1]].startTime
====
